---- MODULE Spec2Model ----
(***************************************************************************)
(* Render-state cache and draw submission of sf::RenderTarget              *)
(* (src/src/SFML/Graphics/RenderTarget.cpp), with the process-wide         *)
(* context -> render-target tracking map.                                  *)
(***************************************************************************)
EXTENDS Integers, FiniteSets, Sequences, TLC

\* ------------------------------------------------------------------ bounds
MaxVertexCount == 5
MaxView == 1
MaxId == 4
SizeBits == 4
MaxEvents == 3
MaxAttribDepth == 1

\* Render targets (by m_id), contexts (by Context::getActiveContextId())
Targets == { 1, 2 }
Contexts == { 1, 2 }
Threads == { 1, 2 }
Views == 0 .. MaxView

\* StatesCache::VertexCacheSize (enum in RenderTarget.hpp)
VertexCacheSize == 4

VARIABLES
    platform,               \* build flags and extension flags of the process
    contextRenderTargetMap, \* RenderTargetImpl::contextRenderTargetMap
    m_cache,                \* RenderTarget::m_cache, per target
    m_view,                 \* RenderTarget::m_view, per target
    gl,                     \* OpenGL state of every context
    lastOp,                 \* what the last RenderTarget call did
    warned,                 \* the function-local "static bool warned" flags
    err,                    \* the once-only warnings written to sf::err()
    m_shader,               \* the members of every sf::Shader
    glObjects,              \* names of the live program and shader objects
    lastCall,               \* what the last Shader call did
    uniformLog,             \* per shader and uniform name: backend lookups and
                            \* warnings since the last compile call
    binder,                 \* per thread: the Shader::UniformBinder of its setUniform call
    statics,                \* the function-local statics of Shader.cpp and the
                            \* number of times each initialiser has run
    locks,                  \* holder and depth of isAvailableMutex,
                            \* maxTextureUnitsMutex and the transient context lock
    stack,                  \* per thread: the Shader calls it is in, innermost last
    returned,               \* per thread: function and value of its last return
    defaults,               \* "static bool first" of getDefaultShader and of
                            \* getDefaultTexShader, and the compilations of each
    destroyed,              \* the targets whose destructor has run
    joystick,               \* JoystickImpl: events, eventMutex, joystickList,
                            \* joystickMapIndex, m_state, and the two threads
    pc,                     \* per thread: position inside isActive/setActive/getUniqueId
    mutexOwner,             \* holder of RenderTargetImpl::mutex (0: free)
    nextId,                 \* static id of RenderTargetImpl::getUniqueId
    thrArg,                 \* per thread: target, flag and isActive result of its call
    thrId                   \* per thread: last value returned by getUniqueId

vars == << platform, contextRenderTargetMap, m_cache, m_view, gl, lastOp,
           warned, err, m_shader, glObjects, lastCall, uniformLog, binder,
           statics, locks, stack, returned, defaults, destroyed, joystick,
           pc, mutexOwner, nextId, thrArg, thrId >>

rtVars == << platform, contextRenderTargetMap, m_cache, m_view, gl, lastOp,
            warned, err >>
thrVars == << pc, mutexOwner, nextId, thrArg, thrId >>
shVars == << m_shader, glObjects, lastCall, uniformLog >>
lockVars == << statics, locks, stack, returned >>
moreVars == << defaults >>
extraVars == << destroyed, joystick >>
restVars == << lockVars, moreVars, extraVars >>
auxVars == << binder, restVars >>

\* ------------------------------------------------------------- platforms
\* SFML_OPENGL_ES / SFML_SYSTEM_MACOS and the GLEXT_ flags the code tests.
\* geometry_shader4 stands for GLEXT_geometry_shader4 || GLEXT_GL_VERSION_3_2.
EsPlatform ==
    [ es |-> TRUE, macos |-> FALSE, multitexture |-> TRUE,
      blend_subtract |-> TRUE, blend_minmax |-> FALSE,
      blend_func_separate |-> TRUE, blend_equation_separate |-> TRUE,
      shaderAvailable |-> TRUE, vertexBufferAvailable |-> TRUE,
      geometry_shader4 |-> FALSE ]

DesktopPlatform ==
    [ es |-> FALSE, macos |-> FALSE, multitexture |-> TRUE,
      blend_subtract |-> TRUE, blend_minmax |-> TRUE,
      blend_func_separate |-> TRUE, blend_equation_separate |-> TRUE,
      shaderAvailable |-> TRUE, vertexBufferAvailable |-> TRUE,
      geometry_shader4 |-> TRUE ]

LegacyPlatform ==
    [ es |-> FALSE, macos |-> FALSE, multitexture |-> FALSE,
      blend_subtract |-> FALSE, blend_minmax |-> FALSE,
      blend_func_separate |-> FALSE, blend_equation_separate |-> FALSE,
      shaderAvailable |-> FALSE, vertexBufferAvailable |-> FALSE,
      geometry_shader4 |-> FALSE ]

\* The macOS build, on a context without geometry shaders
MacPlatform == [ DesktopPlatform EXCEPT !.macos = TRUE, !.geometry_shader4 = FALSE ]

Platforms == { EsPlatform, DesktopPlatform, LegacyPlatform, MacPlatform }

\* ------------------------------------------------------------ blend modes
BlendMode(cs, cd, ce, as, ad, ae) ==
    [ colorSrcFactor |-> cs, colorDstFactor |-> cd, colorEquation |-> ce,
      alphaSrcFactor |-> as, alphaDstFactor |-> ad, alphaEquation |-> ae ]

BlendAlpha == BlendMode("SrcAlpha", "OneMinusSrcAlpha", "Add", "One", "OneMinusSrcAlpha", "Add")
BlendAdd == BlendMode("SrcAlpha", "One", "Add", "One", "One", "Add")

factorToGlConstant(blendFactor) ==
    CASE blendFactor = "Zero" -> "GL_ZERO"
      [] blendFactor = "One" -> "GL_ONE"
      [] blendFactor = "SrcColor" -> "GL_SRC_COLOR"
      [] blendFactor = "OneMinusSrcColor" -> "GL_ONE_MINUS_SRC_COLOR"
      [] blendFactor = "DstColor" -> "GL_DST_COLOR"
      [] blendFactor = "OneMinusDstColor" -> "GL_ONE_MINUS_DST_COLOR"
      [] blendFactor = "SrcAlpha" -> "GL_SRC_ALPHA"
      [] blendFactor = "OneMinusSrcAlpha" -> "GL_ONE_MINUS_SRC_ALPHA"
      [] blendFactor = "DstAlpha" -> "GL_DST_ALPHA"
      [] blendFactor = "OneMinusDstAlpha" -> "GL_ONE_MINUS_DST_ALPHA"
      [] OTHER -> "GL_ZERO"

equationToGlConstant(p, blendEquation) ==
    CASE blendEquation = "Add" -> "GL_FUNC_ADD"
      [] blendEquation = "Subtract" /\ p.blend_subtract -> "GL_FUNC_SUBTRACT"
      [] blendEquation = "ReverseSubtract" /\ p.blend_subtract -> "GL_FUNC_REVERSE_SUBTRACT"
      [] blendEquation = "Min" /\ p.blend_minmax -> "GL_MIN"
      [] blendEquation = "Max" /\ p.blend_minmax -> "GL_MAX"
      [] OTHER -> "GL_FUNC_ADD"

\* ------------------------------------------------- textures and shaders
\* A texture pointer of RenderStates: null, or a texture with its m_cacheId
\* and m_fboAttachment.
NullTexture == [ null |-> TRUE, cacheId |-> 0, fboAttachment |-> FALSE ]
PlainTexture == [ null |-> FALSE, cacheId |-> 1, fboAttachment |-> FALSE ]
FboTexture == [ null |-> FALSE, cacheId |-> 2, fboAttachment |-> TRUE ]
TexturePtrs == { NullTexture, PlainTexture, FboTexture }

\* A shader pointer of RenderStates: null, or a linked user shader.
NullShader == [ null |-> TRUE, program |-> 0 ]
UserShader == [ null |-> FALSE, program |-> 3 ]
ShaderPtrs == { NullShader, UserShader }

\* Shader::getDefaultShader() / Shader::getDefaultTexShader() (ES emulation programs)
DefaultShader == [ null |-> FALSE, program |-> 1 ]
DefaultTexShader == [ null |-> FALSE, program |-> 2 ]

\* glGetAttribLocation(program, name): the default program has no texCoord attribute
AttribLocation(program, name) ==
    CASE program = 0 -> -1
      [] name = "position" -> 0
      [] name = "color" -> 1
      [] name = "texCoord" -> IF program = DefaultShader.program THEN -1 ELSE 2

\* ------------------------------------------------------------ GL state
\* Default state of a context: no blending function set by SFML, nothing
\* bound, no vertex array enabled. texture is the texture of unit 0, units
\* holds the textures of the other units.
GlDefault ==
    [ blendFunc |-> << "GL_ONE", "GL_ZERO", "GL_ONE", "GL_ZERO" >>,
      blendEquation |-> << "GL_FUNC_ADD", "GL_FUNC_ADD" >>,
      texture |-> 0,
      program |-> 0,
      arrays |-> {},
      activeTexture |-> 0,
      units |-> << >>,
      attribStack |-> << >> ]

\* Vertex arrays of the fixed pipeline, numbered like the ES attributes
VertexArray == 0
ColorArray == 1
TexCoordArray == 2

EnableArray(g, loc) == IF loc >= 0 THEN [ g EXCEPT !.arrays = @ \cup { loc } ] ELSE g
DisableArray(g, loc) == IF loc >= 0 THEN [ g EXCEPT !.arrays = @ \ { loc } ] ELSE g

\* --------------------------------------------------------------- cache
\* RenderTarget::RenderTarget() value-initializes m_cache, then initialize()
CacheInit ==
    [ glStatesSet |-> FALSE,
      enable |-> FALSE,
      viewChanged |-> FALSE,
      lastBlendMode |-> BlendAlpha,
      lastTextureId |-> 0,
      texCoordsArrayEnabled |-> FALSE,
      useVertexCache |-> FALSE,
      programChanged |-> 0,
      posAttrib |-> -1,
      colAttrib |-> -1,
      texAttrib |-> -1 ]

NoStates == [ blendMode |-> BlendAlpha, texture |-> NullTexture, shader |-> NullShader ]

\* Record of what one RenderTarget call did
OpInit ==
    [ kind |-> "none", target |-> 0, ctx |-> 0, active |-> FALSE, ret |-> FALSE,
      accepted |-> FALSE,
      trackerAtEntry |-> 0, enableAtEntry |-> FALSE,
      enableAtSetup |-> FALSE, lastTextureAtSetup |-> 0, lastBlendAtSetup |-> BlendAlpha,
      resets |-> 0, baselineAtEnable |-> FALSE,
      states |-> NoStates, count |-> 0,
      vertices |-> FALSE, type |-> "none",
      firstVertex |-> 0, bufferCount |-> 0, handle |-> 0, subtracted |-> FALSE,
      view |-> 0,
      blendCalls |-> 0, textureCalls |-> 0, viewCalls |-> 0, transformCalls |-> 0,
      shaderBinds |-> 0, attribSetups |-> 0,
      submitted |-> 0, first |-> 0,
      arraysAtDraw |-> {}, textureCallsAtDraw |-> 0, textureAtDraw |-> 0,
      cleared |-> FALSE, clearMask |-> {}, lastTextureAtEntry |-> 0 ]

\* ------------------------------------------------- tracking map helpers
\* std::map operator[] assignment and erase
MapPut(map, key, value) ==
    [ k \in (DOMAIN map) \cup { key } |-> IF k = key THEN value ELSE map[k] ]

MapErase(map, key) == [ k \in (DOMAIN map) \ { key } |-> map[k] ]

MapFind(map, key) == IF key \in DOMAIN map THEN map[key] ELSE 0

\* isActive that accepts any entry of the context
isActive_AnyEntry(map, id, ctx) == ctx \in DOMAIN map

\* RenderTargetImpl::isActive(id), with Context::getActiveContextId() = ctx
isActive(map, id, ctx) ==
    IF (ctx \notin DOMAIN map) \/ (map[ctx] # id) THEN FALSE ELSE TRUE

\* The handlers below are functions of a world record
\*   s = [p, map, cache, view, gl, op]
\* holding the platform, the tracking map, the cache and view of the calling
\* target, the GL state of the calling thread's context and the call record.

\* setActive that leaves the cache enabled when it takes a context over
\* from another target
setActive_KeepsCacheOnTakeover(s, id, ctx, active) ==
    IF active
    THEN IF ctx \notin DOMAIN s.map
         THEN [ s EXCEPT !.map = MapPut(@, ctx, id),
                         !.cache.glStatesSet = FALSE,
                         !.cache.enable = FALSE,
                         !.op.ret = TRUE ]
         ELSE IF s.map[ctx] # id
              THEN [ s EXCEPT !.map = MapPut(@, ctx, id),
                              !.op.ret = TRUE ]
              ELSE [ s EXCEPT !.op.ret = TRUE ]
    ELSE [ s EXCEPT !.map = MapErase(@, ctx),
                    !.cache.enable = FALSE,
                    !.op.ret = TRUE ]

\* setActive that also forgets the baseline states when it takes a context
\* over from another target
setActive_ForgetsStatesOnTakeover(s, id, ctx, active) ==
    IF active
    THEN IF (ctx \notin DOMAIN s.map) \/ (s.map[ctx] # id)
         THEN [ s EXCEPT !.map = MapPut(@, ctx, id),
                         !.cache.glStatesSet = FALSE,
                         !.cache.enable = FALSE,
                         !.op.ret = TRUE ]
         ELSE [ s EXCEPT !.op.ret = TRUE ]
    ELSE [ s EXCEPT !.map = MapErase(@, ctx),
                    !.cache.enable = FALSE,
                    !.op.ret = TRUE ]

\* setActive(false) that erases the entry of the context only when it names
\* the calling target
setActive_ErasesOwnEntryOnly(s, id, ctx, active) ==
    IF active
    THEN IF ctx \notin DOMAIN s.map
         THEN [ s EXCEPT !.map = MapPut(@, ctx, id),
                         !.cache.glStatesSet = FALSE,
                         !.cache.enable = FALSE,
                         !.op.ret = TRUE ]
         ELSE IF s.map[ctx] # id
              THEN [ s EXCEPT !.map = MapPut(@, ctx, id),
                              !.cache.enable = FALSE,
                              !.op.ret = TRUE ]
              ELSE [ s EXCEPT !.op.ret = TRUE ]
    ELSE IF isActive(s.map, id, ctx)
         THEN [ s EXCEPT !.map = MapErase(@, ctx),
                         !.cache.enable = FALSE,
                         !.op.ret = TRUE ]
         ELSE [ s EXCEPT !.cache.enable = FALSE,
                         !.op.ret = TRUE ]

\* RenderTarget::setActive(active)
setActive(s, id, ctx, active) ==
    IF active
    THEN IF ctx \notin DOMAIN s.map
         THEN [ s EXCEPT !.map = MapPut(@, ctx, id),
                         !.cache.glStatesSet = FALSE,
                         !.cache.enable = FALSE,
                         !.op.ret = TRUE ]
         ELSE IF s.map[ctx] # id
              THEN [ s EXCEPT !.map = MapPut(@, ctx, id),
                              !.cache.enable = FALSE,
                              !.op.ret = TRUE ]
              ELSE [ s EXCEPT !.op.ret = TRUE ]
    ELSE [ s EXCEPT !.map = MapErase(@, ctx),
                    !.cache.enable = FALSE,
                    !.op.ret = TRUE ]

\* The right operand of the guard: the body runs iff setActive returned true
guardBySetActive(r) == [ r EXCEPT !.op.accepted = r.op.ret ]

\* A guard that skips the body of an inactive target
ensureActive_SkipsInactive(s, id, ctx) ==
    [ s EXCEPT !.op.accepted = isActive(s.map, id, ctx) ]

\* The guard "RenderTargetImpl::isActive(m_id) || setActive(true)": the state
\* after evaluating it, with op.accepted telling whether the body runs
ensureActive(s, id, ctx) ==
    IF isActive(s.map, id, ctx)
    THEN [ s EXCEPT !.op.accepted = TRUE ]
    ELSE guardBySetActive(setActive(s, id, ctx, TRUE))

\* equationToGlConstant: the switch returns no constant for blendEquation
equationFallsBack(p, blendEquation) ==
    \/ blendEquation \in { "Subtract", "ReverseSubtract" } /\ ~ p.blend_subtract
    \/ blendEquation \in { "Min", "Max" } /\ ~ p.blend_minmax

\* equationToGlConstant: the warning behind its "static bool warned"
warnEquation(s, blendEquation) ==
    IF equationFallsBack(s.p, blendEquation) /\ ~ s.warned.equationToGlConstant
    THEN [ s EXCEPT !.warned.equationToGlConstant = TRUE,
                    !.err = Append(@, "Some blending equations will fallback to sf::BlendMode::Add") ]
    ELSE s

\* applyBlendMode that warns on every fallback
warnSelection_EveryTime(s) ==
    [ s EXCEPT !.warned.applyBlendMode = TRUE,
               !.err = Append(@, "Selecting a blend equation not possible") ]

\* applyBlendMode: the warning behind its "static bool warned"
warnSelection(s) ==
    IF ~ s.warned.applyBlendMode
    THEN [ s EXCEPT !.warned.applyBlendMode = TRUE,
                    !.err = Append(@, "Selecting a blend equation not possible") ]
    ELSE s

\* applyBlendMode: what the choice of the blend equation writes to sf::err()
warnBlendMode(s, mode) ==
    IF s.p.blend_minmax \/ s.p.blend_subtract
    THEN IF s.p.blend_equation_separate
         THEN warnEquation(warnEquation(s, mode.colorEquation), mode.alphaEquation)
         ELSE warnEquation(s, mode.colorEquation)
    ELSE IF mode.colorEquation # "Add" \/ mode.alphaEquation # "Add"
         THEN warnSelection(s)
         ELSE s

\* RenderTarget::applyBlendMode(mode): the OpenGL calls and the cache
setBlendMode(s, mode) ==
    [ s EXCEPT
        !.gl.blendFunc =
            IF s.p.blend_func_separate
            THEN << factorToGlConstant(mode.colorSrcFactor),
                    factorToGlConstant(mode.colorDstFactor),
                    factorToGlConstant(mode.alphaSrcFactor),
                    factorToGlConstant(mode.alphaDstFactor) >>
            ELSE << factorToGlConstant(mode.colorSrcFactor),
                    factorToGlConstant(mode.colorDstFactor),
                    factorToGlConstant(mode.colorSrcFactor),
                    factorToGlConstant(mode.colorDstFactor) >>,
        !.gl.blendEquation =
            IF s.p.blend_minmax \/ s.p.blend_subtract
            THEN IF s.p.blend_equation_separate
                 THEN << equationToGlConstant(s.p, mode.colorEquation),
                         equationToGlConstant(s.p, mode.alphaEquation) >>
                 ELSE << equationToGlConstant(s.p, mode.colorEquation),
                         equationToGlConstant(s.p, mode.colorEquation) >>
            ELSE @,
        !.cache.lastBlendMode = mode,
        !.op.blendCalls = @ + 1 ]

\* RenderTarget::applyBlendMode(mode)
applyBlendMode(s, mode) == setBlendMode(warnBlendMode(s, mode), mode)

\* RenderTarget::applyTexture(texture): Texture::bind on unit 0
applyTexture(s, texture) ==
    [ s EXCEPT !.gl.texture = IF texture.null THEN 0 ELSE texture.cacheId,
               !.cache.lastTextureId = IF texture.null THEN 0 ELSE texture.cacheId,
               !.op.textureCalls = @ + 1 ]

\* RenderTarget::applyShader(shader) -> Shader::bind(shader)
applyShader(s, shader) ==
    IF ~ s.p.shaderAvailable
    THEN s
    ELSE IF (~ shader.null) /\ shader.program # 0
         THEN [ s EXCEPT !.gl.program = shader.program, !.op.shaderBinds = @ + 1 ]
         ELSE [ s EXCEPT !.gl.program = 0 ]

\* setView that applies the view at once
setView_AppliesAtOnce(s, view) ==
    [ s EXCEPT !.view = view, !.cache.viewChanged = FALSE, !.op.viewCalls = @ + 1 ]

\* RenderTarget::getView()
getView(s) == s.view

\* RenderTarget::setView(view)
setView(s, view) == [ s EXCEPT !.view = view, !.cache.viewChanged = TRUE ]

\* RenderTarget::applyCurrentView()
applyCurrentView(s) ==
    [ s EXCEPT !.cache.viewChanged = FALSE, !.op.viewCalls = @ + 1 ]

\* resetGLStates: the macOS workaround, "setActive(false)"
resetWorkaround(s, id, ctx) ==
    IF s.p.macos THEN setActive(s, id, ctx, FALSE) ELSE s

\* resetGLStates: the vertex arrays of the baseline, then glStatesSet
resetArrays(s) ==
    IF s.p.es
    THEN [ s EXCEPT !.gl = DisableArray(DisableArray(DisableArray(@,
                              s.cache.posAttrib), s.cache.colAttrib), s.cache.texAttrib),
                    !.cache.glStatesSet = TRUE ]
    ELSE [ s EXCEPT !.gl = EnableArray(EnableArray(EnableArray(@,
                              VertexArray), ColorArray), TexCoordArray),
                    !.cache.glStatesSet = TRUE ]

\* resetGLStates: "if (shaderAvailable) applyShader(NULL)"
resetShader(s) == IF s.p.shaderAvailable THEN applyShader(s, NullShader) ELSE s

\* resetGLStates: the cache flags of the baseline and "setView(getView())"
resetCache(s) ==
    [ setView(s, getView(s)) EXCEPT !.cache.texCoordsArrayEnabled = TRUE,
                                    !.cache.useVertexCache = FALSE ]

\* The cache and the context hold the default SFML states
Baseline(s) ==
    /\ s.cache.glStatesSet
    /\ s.cache.lastBlendMode = BlendAlpha
    /\ s.cache.lastTextureId = 0
    /\ s.cache.texCoordsArrayEnabled
    /\ ~ s.cache.useVertexCache
    /\ s.cache.viewChanged
    /\ s.gl.texture = 0
    /\ s.gl.program = 0

\* resetGLStates: "m_cache.enable = true", with what the cache and the
\* context hold at that point
resetEnable(s) ==
    [ s EXCEPT !.cache.enable = TRUE, !.op.baselineAtEnable = Baseline(s) ]

\* resetGLStates that marks the cache valid before it sets the states
resetGuarded_EnablesFirst(g) ==
    IF g.op.accepted
    THEN resetCache(resetShader(applyTexture(applyBlendMode(resetArrays(resetEnable(g)),
                                                            BlendAlpha), NullTexture)))
    ELSE g

\* resetGLStates: the body under the guard
resetGuarded(g) ==
    IF g.op.accepted
    THEN resetEnable(resetCache(resetShader(applyTexture(applyBlendMode(resetArrays(g),
                                                            BlendAlpha), NullTexture))))
    ELSE g

\* RenderTarget::resetGLStates()
resetGLStates(s, id, ctx) ==
    resetGuarded(ensureActive(
        resetWorkaround([ s EXCEPT !.op.resets = @ + 1 ], id, ctx), id, ctx))

\* The shader the ES backend renders with (setupDraw, usedShader)
usedShaderOf(states) ==
    IF states.shader.null /\ states.texture.null THEN DefaultShader
    ELSE IF states.shader.null /\ ~ states.texture.null THEN DefaultTexShader
    ELSE states.shader

\* setupDraw: what the cache holds when the setup starts
setupEntry(s) ==
    [ s EXCEPT !.op.enableAtSetup = s.cache.enable,
               !.op.lastTextureAtSetup = s.cache.lastTextureId,
               !.op.lastBlendAtSetup = s.cache.lastBlendMode ]

\* setupDraw: "if (!m_cache.glStatesSet) resetGLStates()"
setupBaseline(s, id, ctx) ==
    IF ~ s.cache.glStatesSet THEN resetGLStates(s, id, ctx) ELSE s

\* setupDraw: the model-view transform
setupTransform(s, useVertexCache) ==
    IF useVertexCache
    THEN IF ~ s.p.es
         THEN IF ~ s.cache.enable \/ ~ s.cache.useVertexCache
              THEN [ s EXCEPT !.op.transformCalls = @ + 1 ]
              ELSE s
         ELSE [ s EXCEPT !.op.transformCalls = @ + 1 ]
    ELSE [ s EXCEPT !.op.transformCalls = @ + 1 ]

\* setupDraw: viewport and projection
setupView(s) ==
    IF ~ s.p.es
    THEN IF ~ s.cache.enable \/ s.cache.viewChanged
         THEN applyCurrentView(s)
         ELSE s
    ELSE [ s EXCEPT !.op.viewCalls = @ + 1 ]

\* setupDraw comparing only the colour components of the blend mode
setupBlendMode_ColorOnly(s, states) ==
    IF ~ s.cache.enable
       \/ (states.blendMode.colorSrcFactor # s.cache.lastBlendMode.colorSrcFactor)
       \/ (states.blendMode.colorDstFactor # s.cache.lastBlendMode.colorDstFactor)
       \/ (states.blendMode.colorEquation # s.cache.lastBlendMode.colorEquation)
    THEN applyBlendMode(s, states.blendMode)
    ELSE s

\* setupDraw: the blend mode
setupBlendMode(s, states) ==
    IF ~ s.cache.enable \/ (states.blendMode # s.cache.lastBlendMode)
    THEN applyBlendMode(s, states.blendMode)
    ELSE s

\* setupDraw that trusts the cached texture id also when the cache is
\* invalid
setupTexture_TrustsCache(s, states) ==
    IF (~ states.texture.null) /\ states.texture.fboAttachment
    THEN applyTexture(s, states.texture)
    ELSE IF (IF states.texture.null THEN 0 ELSE states.texture.cacheId)
               # s.cache.lastTextureId
         THEN applyTexture(s, states.texture)
         ELSE s

\* setupDraw: the texture
setupTexture(s, states) ==
    IF ~ s.cache.enable \/ ((~ states.texture.null) /\ states.texture.fboAttachment)
    THEN applyTexture(s, states.texture)
    ELSE IF (IF states.texture.null THEN 0 ELSE states.texture.cacheId)
               # s.cache.lastTextureId
         THEN applyTexture(s, states.texture)
         ELSE s

\* setupDraw, ES: the attributes of the program are resolved and their
\* arrays enabled only when the program differs from the cached one
setupAttributes(s, program) ==
    IF s.cache.programChanged # program
    THEN [ s EXCEPT !.cache.programChanged = program,
                    !.cache.posAttrib = AttribLocation(program, "position"),
                    !.cache.colAttrib = AttribLocation(program, "color"),
                    !.cache.texAttrib = AttribLocation(program, "texCoord"),
                    !.gl = EnableArray(EnableArray(EnableArray(@,
                               AttribLocation(program, "position")),
                               AttribLocation(program, "color")),
                               AttribLocation(program, "texCoord")),
                    !.op.attribSetups = @ + 1 ]
    ELSE s

\* setupDraw: the shader (ES: bind the emulation program and wire its attributes)
setupShader(s, states) ==
    IF s.p.es
    THEN setupAttributes(applyShader(s, usedShaderOf(states)), usedShaderOf(states).program)
    ELSE IF ~ states.shader.null
         THEN applyShader(s, states.shader)
         ELSE s

\* RenderTarget::setupDraw(useVertexCache, states)
setupDraw(s, id, ctx, useVertexCache, states) ==
    setupShader(setupTexture(setupBlendMode(setupView(setupTransform(
        setupBaseline(setupEntry(s), id, ctx), useVertexCache)), states), states), states)

\* RenderTarget::drawPrimitives(type, firstVertex, vertexCount)
drawPrimitives(s, firstVertex, vertexCount) ==
    [ s EXCEPT !.op.submitted = vertexCount,
               !.op.first = firstVertex,
               !.op.arraysAtDraw = s.gl.arrays,
               !.op.textureCallsAtDraw = s.op.textureCalls,
               !.op.textureAtDraw = s.gl.texture ]

\* cleanupDraw that unbinds only a shader the caller asked for
cleanupShader_CallerShaderOnly(s, states) ==
    IF ~ states.shader.null THEN applyShader(s, NullShader) ELSE s

\* cleanupDraw: the shader is unbound
cleanupShader(s, states) ==
    IF s.p.es
    THEN applyShader(s, NullShader)
    ELSE IF ~ states.shader.null THEN applyShader(s, NullShader) ELSE s

\* cleanupDraw: a texture that is an FBO attachment is unbound
cleanupTexture(s, states) ==
    IF (~ states.texture.null) /\ states.texture.fboAttachment
    THEN applyTexture(s, NullTexture)
    ELSE s

\* cleanupDraw that does not re-enable the cache
cleanupDraw_CacheStaysDisabled(s, states) ==
    cleanupTexture(cleanupShader(s, states), states)

\* RenderTarget::cleanupDraw(states)
cleanupDraw(s, states) ==
    [ cleanupTexture(cleanupShader(s, states), states) EXCEPT !.cache.enable = TRUE ]

Min(a, b) == IF a <= b THEN a ELSE b

\* the threshold test with a strict comparison
useVertexCacheFor_Strict(vertexCount) == (vertexCount < VertexCacheSize)

\* draw: "bool useVertexCache = (vertexCount <= StatesCache::VertexCacheSize)"
useVertexCacheFor(vertexCount) == (vertexCount <= VertexCacheSize)

\* draw: "bool enableTexCoordsArray = (states.texture || states.shader)"
enableTexCoordsArray(states) == (~ states.texture.null) \/ (~ states.shader.null)

\* draw: the texture coordinates array follows the render states (desktop)
setupTexCoordsArray(s, states) ==
    IF ~ s.p.es
    THEN IF ~ s.cache.enable
            \/ (enableTexCoordsArray(states) # s.cache.texCoordsArrayEnabled)
         THEN IF enableTexCoordsArray(states)
              THEN [ s EXCEPT !.gl = EnableArray(@, TexCoordArray) ]
              ELSE [ s EXCEPT !.gl = DisableArray(@, TexCoordArray) ]
         ELSE s
    ELSE s

\* draw: the body under the guard
drawGuarded(g, id, ctx, vertexCount, states) ==
    IF g.op.accepted
    THEN [ cleanupDraw(drawPrimitives(setupTexCoordsArray(
               setupDraw(g, id, ctx, useVertexCacheFor(vertexCount), states),
               states), 0, vertexCount), states)
           EXCEPT !.cache.useVertexCache = useVertexCacheFor(vertexCount),
                  !.cache.texCoordsArrayEnabled = enableTexCoordsArray(states) ]
    ELSE g

\* draw that evaluates its guard before it rejects quads on the ES backend
draw_ActivatesBeforeQuadsCheck(s, id, ctx, vertices, vertexCount, type, states) ==
    IF (~ vertices) \/ (vertexCount = 0)
    THEN s
    ELSE IF s.p.es /\ type = "Quads"
    THEN [ ensureActive(s, id, ctx) EXCEPT !.op.accepted = FALSE ]
    ELSE drawGuarded(ensureActive(s, id, ctx), id, ctx, vertexCount, states)

\* RenderTarget::draw(vertices, vertexCount, type, states); vertices is
\* TRUE for a non-null pointer
draw(s, id, ctx, vertices, vertexCount, type, states) ==
    IF (~ vertices) \/ (vertexCount = 0)
    THEN s
    ELSE IF s.p.es /\ type = "Quads"
    THEN s
    ELSE drawGuarded(ensureActive(s, id, ctx), id, ctx, vertexCount, states)

\* draw(vertexBuffer): the texture coordinates array is always enabled
bufferTexCoordsArray(s) ==
    IF ~ s.cache.enable \/ ~ s.cache.texCoordsArrayEnabled
    THEN IF ~ s.p.es
         THEN [ s EXCEPT !.gl = EnableArray(@, TexCoordArray) ]
         ELSE [ s EXCEPT !.gl = EnableArray(@, s.cache.texAttrib) ]
    ELSE s

\* draw(vertexBuffer): the body under the guard
bufferGuarded(g, id, ctx, firstVertex, vertexCount, states) ==
    IF g.op.accepted
    THEN [ cleanupDraw(drawPrimitives(bufferTexCoordsArray(
               setupDraw(g, id, ctx, FALSE, states)), firstVertex, vertexCount), states)
           EXCEPT !.cache.useVertexCache = FALSE,
                  !.cache.texCoordsArrayEnabled = TRUE ]
    ELSE g

\* Subtraction of two std::size_t values
SizeSub(a, b) == (a - b + 2 ^ SizeBits) % (2 ^ SizeBits)

\* draw(vertexBuffer): "Nothing to draw?", the quads test and the guard,
\* with the clamped vertex count
bufferClamped(s, id, ctx, vertexBuffer, firstVertex, vertexCount, states) ==
    IF (vertexCount = 0) \/ (vertexBuffer.handle = 0)
    THEN s
    ELSE IF s.p.es /\ vertexBuffer.type = "Quads"
    THEN s
    ELSE bufferGuarded(ensureActive(s, id, ctx), id, ctx, firstVertex, vertexCount, states)

\* draw(vertexBuffer) without the sanity check of firstVertex
drawVertexBuffer_NoSanityCheck(s, id, ctx, vertexBuffer, firstVertex, vertexCount, states) ==
    IF ~ s.p.vertexBufferAvailable
    THEN s
    ELSE bufferClamped([ s EXCEPT !.op.subtracted = TRUE ], id, ctx, vertexBuffer, firstVertex,
                       Min(vertexCount, SizeSub(vertexBuffer.count, firstVertex)), states)

\* RenderTarget::draw(vertexBuffer, firstVertex, vertexCount, states);
\* vertexBuffer = [count, handle, type]
drawVertexBuffer(s, id, ctx, vertexBuffer, firstVertex, vertexCount, states) ==
    IF ~ s.p.vertexBufferAvailable
    THEN s
    ELSE IF firstVertex > vertexBuffer.count
    THEN s
    ELSE bufferClamped([ s EXCEPT !.op.subtracted = TRUE ], id, ctx, vertexBuffer, firstVertex,
                       Min(vertexCount, SizeSub(vertexBuffer.count, firstVertex)), states)

\* clear that leaves the bound texture alone
clearGuarded_KeepsTexture(g) ==
    IF g.op.accepted
    THEN [ g EXCEPT !.op.cleared = TRUE,
                    !.op.clearMask = { "GL_COLOR_BUFFER_BIT" } ]
    ELSE g

\* clear: the body under the guard
clearGuarded(g) ==
    IF g.op.accepted
    THEN [ applyTexture(g, NullTexture) EXCEPT !.op.cleared = TRUE,
                                               !.op.clearMask = { "GL_COLOR_BUFFER_BIT" } ]
    ELSE g

\* RenderTarget::clear(color)
clear(s, id, ctx) == clearGuarded(ensureActive(s, id, ctx))

\* glPushClientAttrib(GL_CLIENT_ALL_ATTRIB_BITS), glPushAttrib(GL_ALL_ATTRIB_BITS):
\* the blend state, the texture of unit 0 and the enabled arrays are saved;
\* on a full stack the calls fail with GL_STACK_OVERFLOW and save nothing
glPushAttrib(s) ==
    IF Len(s.gl.attribStack) < MaxAttribDepth
    THEN [ s EXCEPT !.gl.attribStack =
                        Append(@, [ blendFunc |-> s.gl.blendFunc,
                                    blendEquation |-> s.gl.blendEquation,
                                    texture |-> s.gl.texture,
                                    arrays |-> s.gl.arrays ]) ]
    ELSE s

\* glPopClientAttrib(), glPopAttrib(): the saved states are restored; on an
\* empty stack the calls fail with GL_STACK_UNDERFLOW and change nothing
glPopAttrib(s) ==
    IF s.gl.attribStack # << >>
    THEN [ s EXCEPT !.gl.blendFunc = s.gl.attribStack[Len(s.gl.attribStack)].blendFunc,
                    !.gl.blendEquation = s.gl.attribStack[Len(s.gl.attribStack)].blendEquation,
                    !.gl.texture = s.gl.attribStack[Len(s.gl.attribStack)].texture,
                    !.gl.arrays = s.gl.attribStack[Len(s.gl.attribStack)].arrays,
                    !.gl.attribStack = SubSeq(@, 1, Len(@) - 1) ]
    ELSE s

\* pushGLStates: the body under the guard
pushGuarded(g) == IF g.op.accepted /\ ~ g.p.es THEN glPushAttrib(g) ELSE g

\* popGLStates: the body under the guard
popGuarded(g) == IF g.op.accepted /\ ~ g.p.es THEN glPopAttrib(g) ELSE g

\* RenderTarget::pushGLStates()
pushGLStates(s, id, ctx) == resetGLStates(pushGuarded(ensureActive(s, id, ctx)), id, ctx)

\* RenderTarget::popGLStates()
popGLStates(s, id, ctx) == popGuarded(ensureActive(s, id, ctx))

\* ----------------------------------------------------------------- inputs
\* Render states, array draws and buffer draws the callers issue
BlendModes == { BlendAlpha, BlendAdd }
RenderStatesSet ==
    { NoStates,
      [ blendMode |-> BlendAdd, texture |-> PlainTexture, shader |-> NullShader ],
      [ blendMode |-> BlendAlpha, texture |-> FboTexture, shader |-> NullShader ],
      [ blendMode |-> BlendAlpha, texture |-> PlainTexture, shader |-> UserShader ] }
BufferStatesSet == { NoStates, [ NoStates EXCEPT !.texture = FboTexture ] }
DrawRequests ==
    { [ vertices |-> FALSE, count |-> 1, type |-> "Triangles" ],
      [ vertices |-> TRUE, count |-> 0, type |-> "Triangles" ],
      [ vertices |-> TRUE, count |-> VertexCacheSize, type |-> "Quads" ],
      [ vertices |-> TRUE, count |-> 1, type |-> "Triangles" ],
      [ vertices |-> TRUE, count |-> VertexCacheSize, type |-> "Triangles" ],
      [ vertices |-> TRUE, count |-> VertexCacheSize + 1, type |-> "Triangles" ] }
BufferRequests ==
    { [ count |-> MaxVertexCount, handle |-> 0, type |-> "Triangles", first |-> 0, n |-> 1 ],
      [ count |-> MaxVertexCount, handle |-> 1, type |-> "Quads", first |-> 0, n |-> 1 ],
      [ count |-> MaxVertexCount, handle |-> 1, type |-> "Triangles", first |-> MaxVertexCount + 1, n |-> 1 ],
      [ count |-> MaxVertexCount, handle |-> 1, type |-> "Triangles", first |-> MaxVertexCount, n |-> 1 ],
      [ count |-> MaxVertexCount, handle |-> 1, type |-> "Triangles", first |-> 1, n |-> MaxVertexCount ],
      [ count |-> MaxVertexCount, handle |-> 1, type |-> "Triangles", first |-> 0, n |-> 1 ] }

\* ------------------------------------------------------------ sf::Shader
\* Shader instances; 0 stands for the null pointer
ShaderIds == { 1, 2 }

\* Shader::Shader()
ShaderInit ==
    [ m_shaderProgram |-> 0, m_currentTexture |-> -1,
      m_textures |-> << >>, m_uniforms |-> << >> ]

\* Uniform names the callers ask for, and glGetUniformLocation of a linked
\* program: the programs declare the samplers "texture", "source" and "mask"
UniformNames == { "texture", "source", "mask", "missing" }
FewNames == { "texture", "missing" }
glGetUniformLocation(name) ==
    CASE name = "texture" -> 0
      [] name = "source" -> 1
      [] name = "mask" -> 2
      [] OTHER -> -1

\* getMaxTextureUnits(): GL_MAX_COMBINED_TEXTURE_IMAGE_UNITS of the driver
getMaxTextureUnits == 3

\* No backend lookup and no warning yet
LogInit ==
    [ lookups |-> [ name \in UniformNames |-> 0 ],
      warnings |-> [ name \in UniformNames |-> 0 ] ]

\* Record of what one Shader call did
CallInit ==
    [ kind |-> "none", shader |-> 0, ret |-> FALSE, done |-> FALSE,
      failure |-> "none", geometry |-> FALSE, name |-> "", texture |-> 0,
      handleAtEntry |-> 0, texturesAtEntry |-> 0,
      created |-> << >>, deleted |-> << >>, invalidDelete |-> FALSE,
      program |-> 0, stage |-> 0, uniform1i |-> << >> ]

\* Shader::isAvailable(), Shader::isGeometryAvailable()
isAvailable(p) == p.shaderAvailable
isGeometryAvailable(p) ==
    IF p.es THEN FALSE ELSE isAvailable(p) /\ p.geometry_shader4

\* The names this call has created or deleted
NamesOfCall(w) ==
    { w.call.created[i] : i \in 1 .. Len(w.call.created) } \cup
    { w.call.deleted[i] : i \in 1 .. Len(w.call.deleted) }

\* The names in use: of live objects, of the program in use, of this call
UsedNames(w) == w.objs \cup { w.gl.program } \cup NamesOfCall(w)

\* A name OpenGL hands out: the least one not in use
NewName(w) ==
    CHOOSE n \in 1 .. (Cardinality(UsedNames(w)) + 1) :
        /\ n \notin UsedNames(w)
        /\ \A m \in 1 .. (n - 1) : m \in UsedNames(w)

\* glCreateProgramObject / glCreateShaderObject
glCreateProgram(w) ==
    [ w EXCEPT !.objs = @ \cup { NewName(w) },
               !.call.created = Append(@, NewName(w)),
               !.call.program = NewName(w) ]
glCreateShader(w) ==
    [ w EXCEPT !.objs = @ \cup { NewName(w) },
               !.call.created = Append(@, NewName(w)),
               !.call.stage = NewName(w) ]

\* glDeleteObject(shader) / glDeleteObject(program): the name stops being
\* the application's (an attached shader and the program in use are freed by
\* OpenGL when they are no longer needed); deleting a name that is not a
\* live object is an error
glDeleteObject(w, name) ==
    IF name \notin w.objs
    THEN [ w EXCEPT !.call.deleted = Append(@, name), !.call.invalidDelete = TRUE ]
    ELSE [ w EXCEPT !.objs = @ \ { name }, !.call.deleted = Append(@, name) ]

\* glUseProgramObject(program)
glUseProgram(w, program) == [ w EXCEPT !.gl.program = program ]

\* compile: "return false"
compileFails(w, failure) ==
    [ w EXCEPT !.call.ret = FALSE, !.call.done = TRUE, !.call.failure = failure ]

\* compile that keeps the program it replaces until the new one links
compileDestroy_KeepsProgram(w) == w

\* compile: "Destroy the shader if it was already created"
compileDestroy(w) ==
    IF w.sh.m_shaderProgram # 0
    THEN [ glDeleteObject(w, w.sh.m_shaderProgram) EXCEPT !.sh.m_shaderProgram = 0 ]
    ELSE w

\* compile: "Reset the internal state"
compileReset(w) ==
    [ w EXCEPT !.sh.m_currentTexture = -1,
               !.sh.m_textures = << >>,
               !.sh.m_uniforms = << >> ]

\* compile that forgets the stage object when its compilation fails
compileStatus_LeaksStage(w, stage, success) ==
    IF success
    THEN glDeleteObject(w, w.call.stage)
    ELSE compileFails(glDeleteObject(w, w.call.program), stage)

\* compile: the verdict on a created stage object; a compiled stage is
\* attached to the program and deleted
compileStatus(w, stage, success) ==
    IF success
    THEN glDeleteObject(w, w.call.stage)
    ELSE compileFails(glDeleteObject(glDeleteObject(w, w.call.stage), w.call.program),
                      stage)

\* compile: one stage, "if (...ShaderCode)"
compileStage(w, stage, code, success) ==
    IF w.call.done \/ ~ code
    THEN w
    ELSE compileStatus(glCreateShader(w), stage, success)

\* compile: the geometry stage is compiled out of the ES build
compileGeometry(w, code, success) ==
    IF w.p.es THEN w ELSE compileStage(w, "geometry", code, success)

\* compile that does not take the program it linked
compileLink_DropsProgram(w, success) ==
    IF w.call.done
    THEN w
    ELSE IF success
         THEN [ w EXCEPT !.call.ret = TRUE, !.call.done = TRUE ]
         ELSE compileFails(glDeleteObject(w, w.call.program), "link")

\* compile: link, take the program, flush
compileLink(w, success) ==
    IF w.call.done
    THEN w
    ELSE IF success
         THEN [ w EXCEPT !.sh.m_shaderProgram = w.call.program,
                         !.call.ret = TRUE, !.call.done = TRUE ]
         ELSE compileFails(glDeleteObject(w, w.call.program), "link")

\* compile: from "Create the program" on
compileProgram(w, code, status) ==
    compileLink(compileStage(compileGeometry(compileStage(glCreateProgram(w),
                                                          "vertex", code.vertex, status.vertex),
                                             code.geometry, status.geometry),
                             "fragment", code.fragment, status.fragment),
                status.link)

\* compile that destroys and resets the shader before it tests the
\* capabilities
compile_ResetsFirst(w, code, status) ==
    IF ~ isAvailable(w.p)
    THEN compileFails(compileReset(compileDestroy(w)), "unavailable")
    ELSE IF code.geometry /\ ~ isGeometryAvailable(w.p)
         THEN compileFails(compileReset(compileDestroy(w)), "geometry unavailable")
         ELSE compileProgram(compileReset(compileDestroy(w)), code, status)

\* Shader::compile(vertexShaderCode, geometryShaderCode, fragmentShaderCode);
\* status holds the verdicts of the driver on each stage and on the link
compile(w, code, status) ==
    IF ~ isAvailable(w.p)
    THEN compileFails(w, "unavailable")
    ELSE IF code.geometry /\ ~ isGeometryAvailable(w.p)
         THEN compileFails(w, "geometry unavailable")
         ELSE compileProgram(compileReset(compileDestroy(w)), code, status)

\* getUniformLocation that asks OpenGL every time
getUniformLocation_Uncached(w, name) ==
    [ w EXCEPT !.sh.m_uniforms = MapPut(@, name, glGetUniformLocation(name)),
               !.log.lookups[name] = @ + 1,
               !.log.warnings[name] =
                   IF glGetUniformLocation(name) = -1 THEN @ + 1 ELSE @ ]

\* Shader::getUniformLocation(name): the cache after the call; the location
\* returned is m_uniforms[name]
getUniformLocation(w, name) ==
    IF name \in DOMAIN w.sh.m_uniforms
    THEN w
    ELSE [ w EXCEPT !.sh.m_uniforms = MapPut(@, name, glGetUniformLocation(name)),
                    !.log.lookups[name] = @ + 1,
                    !.log.warnings[name] =
                        IF glGetUniformLocation(name) = -1 THEN @ + 1 ELSE @ ]

\* setUniform(name, texture) that lets the table fill every texture unit
recordTexture_OffByOne(w, name, texture) ==
    IF w.sh.m_uniforms[name] = -1
    THEN w
    ELSE IF /\ w.sh.m_uniforms[name] \notin DOMAIN w.sh.m_textures
            /\ Cardinality(DOMAIN w.sh.m_textures) + 1 > getMaxTextureUnits
         THEN w
         ELSE [ w EXCEPT !.sh.m_textures = MapPut(@, w.sh.m_uniforms[name], texture) ]

\* setUniform(name, texture): "if (location != -1)", once getUniformLocation
\* has put the location in m_uniforms
recordTexture(w, name, texture) ==
    IF w.sh.m_uniforms[name] = -1
    THEN w
    ELSE IF /\ w.sh.m_uniforms[name] \notin DOMAIN w.sh.m_textures
            /\ Cardinality(DOMAIN w.sh.m_textures) + 1 >= getMaxTextureUnits
         THEN w
         ELSE [ w EXCEPT !.sh.m_textures = MapPut(@, w.sh.m_uniforms[name], texture) ]

\* Shader::setUniform(name, texture)
setUniformTexture(w, name, texture) ==
    IF w.sh.m_shaderProgram = 0
    THEN w
    ELSE recordTexture(getUniformLocation(w, name), name, texture)

\* Shader::setUniform(name, CurrentTexture)
setUniformCurrentTexture(w, name) ==
    IF w.sh.m_shaderProgram = 0
    THEN w
    ELSE [ getUniformLocation(w, name) EXCEPT
             !.sh.m_currentTexture = getUniformLocation(w, name).sh.m_uniforms[name] ]

\* Shader::getNativeHandle()
getNativeHandle(shader) == shader.m_shaderProgram

\* glUniform1i(location, v0), glActiveTexture(GL_TEXTURE0 + unit) and
\* Texture::bind(texture), which binds to the active unit
glUniform1i(w, location, v0) ==
    [ w EXCEPT !.call.uniform1i = Append(@, << location, v0 >>) ]
glActiveTexture(w, unit) == [ w EXCEPT !.gl.activeTexture = unit ]
textureBind(w, texture) ==
    IF w.gl.activeTexture = 0
    THEN [ w EXCEPT !.gl.texture = texture ]
    ELSE [ w EXCEPT !.gl.units = MapPut(@, w.gl.activeTexture, texture) ]

\* The key the iterator of a std::map is at after i increments
KeyAt(map, i) ==
    CHOOSE k \in DOMAIN map : Cardinality({ j \in DOMAIN map : j < k }) = i

\* bindTextures: the loop, from iteration i on
RECURSIVE bindTexturesLoop(_, _, _)
bindTexturesLoop(w, textures, i) ==
    IF i >= Cardinality(DOMAIN textures)
    THEN w
    ELSE bindTexturesLoop(
             textureBind(glActiveTexture(glUniform1i(w, KeyAt(textures, i), i + 1), i + 1),
                         textures[KeyAt(textures, i)]),
             textures, i + 1)

\* bindTextures that leaves the unit of the last texture active
bindTextures_LeavesUnit(w, textures) == bindTexturesLoop(w, textures, 0)

\* Shader::bindTextures()
bindTextures(w, textures) == glActiveTexture(bindTexturesLoop(w, textures, 0), 0)

\* bind: "if (shader->m_currentTexture != -1) glUniform1i(m_currentTexture, 0)"
bindCurrentTexture(w, shader) ==
    IF shader.m_currentTexture # -1
    THEN glUniform1i(w, shader.m_currentTexture, 0)
    ELSE w

\* Shader::bind(shader); null says that the pointer is null
bind(w, null, shader) ==
    IF ~ isAvailable(w.p)
    THEN w
    ELSE IF (~ null) /\ shader.m_shaderProgram # 0
         THEN bindCurrentTexture(bindTextures(glUseProgram(w, shader.m_shaderProgram),
                                              shader.m_textures), shader)
         ELSE glUseProgram(w, 0)

\* UniformBinder that does not save the program in use
UniformBinder_Unconditional(w, name) ==
    IF w.call.currentProgram # 0
    THEN [ getUniformLocation(glUseProgram(w, w.call.currentProgram), name) EXCEPT
             !.call.location =
                 getUniformLocation(w, name).sh.m_uniforms[name] ]
    ELSE w

\* UniformBinder::UniformBinder(shader, name): the body, after the member
\* initializers; w.call holds the members
UniformBinder(w, name) ==
    IF w.call.currentProgram # 0
    THEN [ getUniformLocation(
             ( IF w.call.currentProgram # w.gl.program
               THEN glUseProgram(w, w.call.currentProgram)
               ELSE w ), name) EXCEPT
             !.call.savedProgram = w.gl.program,
             !.call.location = getUniformLocation(w, name).sh.m_uniforms[name] ]
    ELSE w

\* UniformBinder::~UniformBinder()
UniformBinderDestroy(w) ==
    IF w.call.currentProgram # 0 /\ w.call.currentProgram # w.call.savedProgram
    THEN [ glUseProgram(w, w.call.savedProgram) EXCEPT !.call.restored = TRUE ]
    ELSE w

\* The sources given to compile (loadFromMemory with one type, with vertex
\* and fragment, with all three) and the verdicts of the driver
CompileCodes ==
    { [ vertex |-> FALSE, geometry |-> FALSE, fragment |-> TRUE ],
      [ vertex |-> TRUE, geometry |-> FALSE, fragment |-> TRUE ],
      [ vertex |-> TRUE, geometry |-> TRUE, fragment |-> TRUE ] }
CompileStatuses ==
    { [ vertex |-> TRUE, geometry |-> TRUE, fragment |-> TRUE, link |-> TRUE ],
      [ vertex |-> FALSE, geometry |-> TRUE, fragment |-> TRUE, link |-> TRUE ],
      [ vertex |-> TRUE, geometry |-> FALSE, fragment |-> TRUE, link |-> TRUE ],
      [ vertex |-> TRUE, geometry |-> TRUE, fragment |-> FALSE, link |-> TRUE ],
      [ vertex |-> TRUE, geometry |-> TRUE, fragment |-> TRUE, link |-> FALSE ] }


\* ------------------------------------------------------------ the machine
\* The world a call of target id in context ctx starts from
World(id, ctx, kind) ==
    [ p |-> platform,
      map |-> contextRenderTargetMap,
      cache |-> m_cache[id],
      view |-> m_view[id],
      gl |-> gl[ctx],
      warned |-> warned,
      err |-> err,
      op |-> [ OpInit EXCEPT !.kind = kind, !.target = id, !.ctx = ctx,
                             !.trackerAtEntry = MapFind(contextRenderTargetMap, ctx),
                             !.enableAtEntry = m_cache[id].enable,
                             !.lastTextureAtEntry = m_cache[id].lastTextureId ] ]

\* The world a call leaves behind
Commit(id, ctx, r) ==
    /\ contextRenderTargetMap' = r.map
    /\ m_cache' = [ m_cache EXCEPT ![id] = r.cache ]
    /\ m_view' = [ m_view EXCEPT ![id] = r.view ]
    /\ gl' = [ gl EXCEPT ![ctx] = r.gl ]
    /\ lastOp' = r.op
    /\ warned' = r.warned
    /\ err' = r.err
    /\ UNCHANGED << platform, thrVars, shVars, auxVars >>

RtInit ==
    /\ platform \in Platforms
    /\ contextRenderTargetMap = << >>
    /\ m_cache = [ t \in Targets |-> CacheInit ]
    /\ m_view = [ t \in Targets |-> 0 ]
    /\ gl = [ c \in Contexts |-> GlDefault ]
    /\ lastOp = OpInit
    /\ warned = [ applyBlendMode |-> FALSE, equationToGlConstant |-> FALSE ]
    /\ err = << >>

\* Arguments, result and race mark of the tracker call a thread is in
ArgInit == [ target |-> 0, active |-> FALSE, result |-> FALSE, raced |-> FALSE ]

ThrInit ==
    /\ pc = [ th \in Threads |-> "idle" ]
    /\ mutexOwner = 0
    /\ nextId = Cardinality(Targets) + 1
    /\ thrArg = [ th \in Threads |-> ArgInit ]
    /\ thrId = [ th \in Threads |-> 0 ]

ShInit ==
    /\ m_shader = [ sh \in ShaderIds |-> ShaderInit ]
    /\ glObjects = {}
    /\ lastCall = CallInit
    /\ uniformLog = [ sh \in ShaderIds |-> LogInit ]

\* The members of a UniformBinder, with the program in use when the call
\* started and what the call did
BinderInit ==
    [ shader |-> 0, name |-> "", savedProgram |-> 0, currentProgram |-> 0,
      location |-> -1, programAtEntry |-> 0, uniformSetIn |-> 0,
      restored |-> FALSE, returned |-> FALSE ]

\* "static bool checked = false; static bool available = false;" of
\* isAvailable and of isGeometryAvailable, "static GLint maxUnits" of
\* getMaxTextureUnits before its initialiser has run, and how many times
\* each probe has run
StaticsInit ==
    [ fn \in { "isAvailable", "isGeometryAvailable", "getMaxTextureUnits" } |->
        [ checked |-> FALSE, available |-> FALSE, maxUnits |-> 0, runs |-> 0 ] ]

Mutexes == { "isAvailableMutex", "maxTextureUnitsMutex", "contextLock" }

LockInit ==
    /\ statics = StaticsInit
    /\ locks = [ m \in Mutexes |-> [ owner |-> 0, count |-> 0 ] ]
    /\ stack = [ th \in Threads |-> << >> ]
    /\ returned = [ th \in Threads |-> [ fn |-> "", value |-> FALSE, maxUnits |-> 0 ] ]

\* The instances of getDefaultShader and getDefaultTexShader are the
\* shaders 1 and 2
DefaultShaders == { "getDefaultShader", "getDefaultTexShader" }
instance(fn) == IF fn = "getDefaultShader" THEN 1 ELSE 2

\* "static Shader instance; static bool first = true;"
DefaultsInit == [ fn \in DefaultShaders |-> [ first |-> TRUE, compiles |-> 0 ] ]

\* Joystick::ButtonCount
ButtonCount == 32

\* Joystick::Axis and the field of JoystickMotionData each axis is set from
AxisField ==
    [ X |-> "xAxis", Y |-> "yAxis", Z |-> "zAxis", R |-> "rzAxis",
      U |-> "leftTrigger", V |-> "rightTrigger",
      PovX |-> "xHatAxis", PovY |-> "yHatAxis" ]

\* "JoystickMotionData motion {}"
MotionInit ==
    [ xHatAxis |-> 0, yHatAxis |-> 0, leftTrigger |-> 0, rightTrigger |-> 0,
      xAxis |-> 0, yAxis |-> 0, zAxis |-> 0, rzAxis |-> 0 ]

\* "sf::priv::JoystickState state {}"
JoystickStateInit ==
    [ connected |-> FALSE,
      axes |-> [ a \in DOMAIN AxisField |-> 0 ],
      buttons |-> [ b \in 0 .. ButtonCount - 1 |-> FALSE ] ]

\* "JoystickRecord": "sf::Int32 deviceId = 0; JoystickState state {}"
JoystickRecord == [ deviceId |-> 0, state |-> JoystickStateInit ]

\* A JoystickEvent; n is its rank among the events passed to pushEvent
JoystickEventInit ==
    [ n |-> 0, deviceId |-> 0, type |-> "Key", index |-> ButtonCount,
      pressed |-> FALSE, motion |-> MotionInit ]

\* The statics of JoystickImpl.cpp, the members of the JoystickImpl that
\* calls update, the position of the thread inside update or open (with the
\* iterator of the loop and the argument of open) and of the thread inside
\* pushEvent (with its argument), the number of events pushed and the ranks
\* of the events applied, in the order of their application; the position
\* of the thread inside isConnected, with its argument and its result.
\* raced and openRaced tell that the unlocked read of isConnected, or the
\* unlocked write of open, overlapped a change of the list by another thread
JoystickInit ==
    [ events |-> << >>, eventMutex |-> 0,
      joystickList |-> << >>, joystickMapIndex |-> << >>,
      m_index |-> 0, m_state |-> [ JoystickStateInit EXCEPT !.connected = TRUE ],
      update |-> "idle", it |-> 0,
      push |-> "idle", event |-> JoystickEventInit,
      history |-> << >>, applied |-> << >>,
      openIndex |-> 0, openRaced |-> FALSE,
      poll |-> "idle", index |-> 0, result |-> FALSE, raced |-> FALSE ]

AuxInit ==
    /\ binder = [ th \in Threads |-> BinderInit ]
    /\ LockInit
    /\ defaults = DefaultsInit
    /\ destroyed = {}
    /\ joystick = JoystickInit

Init == RtInit /\ ThrInit /\ ShInit /\ AuxInit

Draw(id, ctx, requests, statesSet) ==
    \E req \in requests, states \in statesSet :
        LET s == World(id, ctx, "draw")
            s0 == [ s EXCEPT !.op.states = states, !.op.count = req.count,
                             !.op.vertices = req.vertices, !.op.type = req.type ]
            r == draw(s0, id, ctx, req.vertices, req.count, req.type, states)
        IN  Commit(id, ctx, r)

DrawVertexBuffer(id, ctx, requests, statesSet) ==
    \E req \in requests, states \in statesSet :
        LET s == World(id, ctx, "drawVertexBuffer")
            s0 == [ s EXCEPT !.op.states = states, !.op.count = req.n,
                             !.op.type = req.type, !.op.firstVertex = req.first,
                             !.op.bufferCount = req.count, !.op.handle = req.handle ]
            vertexBuffer == [ count |-> req.count, handle |-> req.handle, type |-> req.type ]
            r == drawVertexBuffer(s0, id, ctx, vertexBuffer, req.first, req.n, states)
        IN  Commit(id, ctx, r)

Clear(id, ctx) ==
    LET r == clear(World(id, ctx, "clear"), id, ctx)
    IN  Commit(id, ctx, r)

SetView(id, ctx, views) ==
    \E view \in views :
        LET r == setView([ World(id, ctx, "setView") EXCEPT !.op.view = view ], view)
        IN  Commit(id, ctx, r)

SetActive(id, ctx) ==
    \E active \in BOOLEAN :
        LET s == World(id, ctx, "setActive")
            r == setActive([ s EXCEPT !.op.active = active ], id, ctx, active)
        IN  Commit(id, ctx, r)

PushGLStates(id, ctx) ==
    LET r == pushGLStates(World(id, ctx, "pushGLStates"), id, ctx)
    IN  Commit(id, ctx, r)

PopGLStates(id, ctx) ==
    LET r == popGLStates(World(id, ctx, "popGLStates"), id, ctx)
    IN  Commit(id, ctx, r)

ResetGLStates(id, ctx) ==
    LET r == resetGLStates(World(id, ctx, "resetGLStates"), id, ctx)
    IN  Commit(id, ctx, r)

\* Activation, draws and clears of several targets sharing several
\* contexts, with one render state
TrackerDraws ==
    { [ vertices |-> TRUE, count |-> 0, type |-> "Triangles" ],
      [ vertices |-> TRUE, count |-> 1, type |-> "Triangles" ] }

Next ==
    \E id \in Targets, ctx \in Contexts :
        \/ Draw(id, ctx, TrackerDraws, { NoStates })
        \/ Clear(id, ctx)
        \/ SetActive(id, ctx)

Spec == Init /\ [][Next]_vars

\* Every operation of one target in one context, with render states covering
\* every blend mode, texture and shader kind
NextOps ==
    \/ Draw(1, 1, DrawRequests, RenderStatesSet)
    \/ DrawVertexBuffer(1, 1, BufferRequests, BufferStatesSet)
    \/ Clear(1, 1)
    \/ SetView(1, 1, Views)
    \/ SetActive(1, 1)
    \/ ResetGLStates(1, 1)

SpecOps == Init /\ [][NextOps]_vars

\* The states of one target in one context saved, reset and restored
\* between draws
SavedStates == { NoStates, [ NoStates EXCEPT !.blendMode = BlendAdd, !.texture = PlainTexture ] }
OneTriangle == { [ vertices |-> TRUE, count |-> 1, type |-> "Triangles" ] }

NextSaved ==
    \/ Draw(1, 1, OneTriangle, SavedStates)
    \/ SetActive(1, 1)
    \/ PushGLStates(1, 1)
    \/ PopGLStates(1, 1)
    \/ ResetGLStates(1, 1)

SpecSaved == Init /\ [][NextSaved]_vars

\* Two targets drawing in one context, one of which also clears, changes
\* its view and saves and restores the states, on the ES and on a desktop
\* platform
CoherenceInit == Init /\ platform \in { EsPlatform, DesktopPlatform }

NextCoherence ==
    \/ Draw(1, 1, OneTriangle, SavedStates)
    \/ Draw(2, 1, OneTriangle, { NoStates })
    \/ \E id \in Targets : SetActive(id, 1)
    \/ Clear(1, 1)
    \/ SetView(1, 1, { MaxView })
    \/ PushGLStates(1, 1)
    \/ PopGLStates(1, 1)

SpecCoherence == CoherenceInit /\ [][NextCoherence]_vars

\* One target driven from several contexts
NextSwitch ==
    \E ctx \in Contexts :
        \/ Draw(1, ctx, { [ vertices |-> TRUE, count |-> 1, type |-> "Triangles" ] },
                [ blendMode : BlendModes, texture : { NullTexture, PlainTexture },
                  shader : { NullShader } ])
        \/ SetActive(1, ctx)

SpecSwitch == Init /\ [][NextSwitch]_vars

\* Several targets sharing one context
NextShared ==
    \E id \in Targets :
        \/ Draw(id, 1, TrackerDraws, { NoStates, [ NoStates EXCEPT !.blendMode = BlendAdd ] })
        \/ Clear(id, 1)
        \/ SetActive(id, 1)
        \/ PushGLStates(id, 1)

SpecShared == Init /\ [][NextShared]_vars

\* Draws of one target in one context with blend modes that differ from
\* BlendAlpha in exactly one component
BlendFields ==
    { "colorSrcFactor", "colorDstFactor", "colorEquation",
      "alphaSrcFactor", "alphaDstFactor", "alphaEquation" }
BlendVariants ==
    { BlendAlpha,
      [ BlendAlpha EXCEPT !.colorSrcFactor = "One" ],
      [ BlendAlpha EXCEPT !.colorDstFactor = "Zero" ],
      [ BlendAlpha EXCEPT !.colorEquation = "Subtract" ],
      [ BlendAlpha EXCEPT !.alphaSrcFactor = "DstAlpha" ],
      [ BlendAlpha EXCEPT !.alphaDstFactor = "One" ],
      [ BlendAlpha EXCEPT !.alphaEquation = "ReverseSubtract" ] }

NextBlend ==
    \/ Draw(1, 1, { [ vertices |-> TRUE, count |-> 1, type |-> "Triangles" ] },
            [ blendMode : BlendVariants, texture : { NullTexture }, shader : { NullShader } ])
    \/ SetActive(1, 1)
    \/ PushGLStates(1, 1)

SpecBlend == Init /\ [][NextBlend]_vars

\* Draws of every target in one context that ask for additive and for
\* non-additive blend equations
FallbackVariants ==
    { BlendAlpha,
      [ BlendAlpha EXCEPT !.colorEquation = "Subtract" ],
      [ BlendAlpha EXCEPT !.alphaEquation = "Max" ] }

NextFallback ==
    \E id \in Targets :
        \/ Draw(id, 1, { [ vertices |-> TRUE, count |-> 1, type |-> "Triangles" ] },
                [ blendMode : FallbackVariants, texture : { NullTexture },
                  shader : { NullShader } ])
        \/ SetActive(id, 1)

SpecFallback == Init /\ [][NextFallback]_vars

\* Two targets sharing context 1, drawing with every kind of texture
TextureStates == { [ NoStates EXCEPT !.texture = t ] : t \in TexturePtrs }

NextTexture ==
    \E id \in Targets :
        \/ Draw(id, 1, { r \in DrawRequests : r.vertices /\ r.count = 1 }, TextureStates)
        \/ DrawVertexBuffer(id, 1, { r \in BufferRequests : r.n = 1 /\ r.first = 0 }, BufferStatesSet)
        \/ SetActive(id, 1)

SpecTexture == Init /\ [][NextTexture]_vars

\* Every guarded operation of one target in several contexts, which another
\* target activates and deactivates, on the backend that rejects quads and
\* on the one whose resetGLStates deactivates first
EnsureDraws ==
    { [ vertices |-> TRUE, count |-> 1, type |-> "Triangles" ],
      [ vertices |-> TRUE, count |-> 1, type |-> "Quads" ],
      [ vertices |-> FALSE, count |-> 1, type |-> "Triangles" ] }

EnsureInit == Init /\ platform \in { EsPlatform, MacPlatform }

NextEnsure ==
    \E ctx \in Contexts :
        \/ Draw(1, ctx, EnsureDraws, { NoStates })
        \/ Clear(1, ctx)
        \/ PushGLStates(1, ctx)
        \/ PopGLStates(1, ctx)
        \/ \E id \in Targets : SetActive(id, ctx)

SpecEnsure == EnsureInit /\ [][NextEnsure]_vars

\* ------------------------------------------------------------ the tracker under threads
\* Context::getActiveContextId() of a thread: every thread has its own
\* current context
getActiveContextId(th) == th

\* isActive(id) starts: contextRenderTargetMap.find(...) begins, no lock is
\* taken
IsActiveFind(th) ==
    /\ pc[th] = "idle"
    /\ \E id \in Targets :
         thrArg' = [ thrArg EXCEPT ![th] = [ ArgInit EXCEPT !.target = id ] ]
    /\ pc' = [ pc EXCEPT ![th] = "isActive_find" ]
    /\ UNCHANGED << rtVars, shVars, auxVars, mutexOwner, nextId, thrId >>

\* isActive(id) returns; a find that overlapped a write of the map is a
\* data race and may return either answer
IsActiveReturn(th) ==
    /\ pc[th] = "isActive_find"
    /\ \E result \in (IF thrArg[th].raced
                      THEN BOOLEAN
                      ELSE { isActive(contextRenderTargetMap, thrArg[th].target,
                                      getActiveContextId(th)) }) :
         thrArg' = [ thrArg EXCEPT ![th].result = result ]
    /\ pc' = [ pc EXCEPT ![th] = "idle" ]
    /\ UNCHANGED << rtVars, shVars, auxVars, mutexOwner, nextId, thrId >>

\* setActive(active): "sf::Lock lock(RenderTargetImpl::mutex)"
SetActiveLock(th) ==
    /\ pc[th] = "idle"
    /\ mutexOwner = 0
    /\ \E id \in Targets, active \in BOOLEAN :
         thrArg' = [ thrArg EXCEPT ![th] = [ ArgInit EXCEPT !.target = id, !.active = active ] ]
    /\ mutexOwner' = th
    /\ pc' = [ pc EXCEPT ![th] = "setActive_locked" ]
    /\ UNCHANGED << rtVars, shVars, auxVars, nextId, thrId >>

\* setActive(active): the map and the cache are updated under the lock;
\* every find in progress in another thread has raced with the update
SetActiveUpdate(th) ==
    /\ pc[th] = "setActive_locked"
    /\ LET id == thrArg[th].target
           ctx == getActiveContextId(th)
           r == setActive([ map |-> contextRenderTargetMap, cache |-> m_cache[id], op |-> OpInit ],
                          id, ctx, thrArg[th].active)
       IN  /\ contextRenderTargetMap' = r.map
           /\ m_cache' = [ m_cache EXCEPT ![id] = r.cache ]
           /\ thrArg' = [ o \in Threads |->
                            IF o = th THEN [ thrArg[o] EXCEPT !.result = r.op.ret ]
                            ELSE IF pc[o] = "isActive_find" THEN [ thrArg[o] EXCEPT !.raced = TRUE ]
                            ELSE thrArg[o] ]
    /\ pc' = [ pc EXCEPT ![th] = "setActive_unlock" ]
    /\ UNCHANGED << platform, m_view, gl, lastOp, warned, err, shVars, auxVars,
                    mutexOwner, nextId, thrId >>

\* setActive(active): the lock's scope ends, the call returns
SetActiveUnlock(th) ==
    /\ pc[th] = "setActive_unlock"
    /\ mutexOwner' = 0
    /\ pc' = [ pc EXCEPT ![th] = "idle" ]
    /\ UNCHANGED << rtVars, shVars, auxVars, nextId, thrArg, thrId >>

\* The static id keeps its value
postIncrement_Keeps(id) == id

\* getUniqueId(): the value "id++" leaves in the static id
postIncrement(id) == id + 1

\* getUniqueId(): "sf::Lock lock(mutex)"
GetUniqueIdLock(th) ==
    /\ pc[th] = "idle"
    /\ mutexOwner = 0
    /\ nextId <= MaxId
    /\ mutexOwner' = th
    /\ pc' = [ pc EXCEPT ![th] = "getUniqueId_locked" ]
    /\ UNCHANGED << rtVars, shVars, auxVars, nextId, thrArg, thrId >>

\* getUniqueId(): "return id++", the lock's scope ends
GetUniqueIdReturn(th) ==
    /\ pc[th] = "getUniqueId_locked"
    /\ thrId' = [ thrId EXCEPT ![th] = nextId ]
    /\ nextId' = postIncrement(nextId)
    /\ mutexOwner' = 0
    /\ pc' = [ pc EXCEPT ![th] = "idle" ]
    /\ UNCHANGED << rtVars, shVars, auxVars, thrArg >>

NextThreads ==
    \E th \in Threads :
        \/ IsActiveFind(th)
        \/ IsActiveReturn(th)
        \/ SetActiveLock(th)
        \/ SetActiveUpdate(th)
        \/ SetActiveUnlock(th)
        \/ GetUniqueIdLock(th)
        \/ GetUniqueIdReturn(th)

SpecThreads == Init /\ [][NextThreads]_vars

\* The process before any render target is initialized:
\* "static sf::Uint64 id = 1"
IdsInit ==
    /\ pc = [ th \in Threads |-> "idle" ]
    /\ mutexOwner = 0
    /\ nextId = 1
    /\ thrArg = [ th \in Threads |-> ArgInit ]
    /\ thrId = [ th \in Threads |-> 0 ]

\* Threads that initialize render targets: "m_id = getUniqueId()"
NextIds == \E th \in Threads : GetUniqueIdLock(th) \/ GetUniqueIdReturn(th)

IdsStart == RtInit /\ IdsInit /\ ShInit /\ AuxInit

SpecIds == IdsStart /\ [][NextIds]_vars

\* ----------------------------------------------------- sf::Shader calls
\* The world a call on shader sh starts from; TransientContextLock makes
\* context 1 the current one
ShaderWorld(sh, kind) ==
    [ p |-> platform,
      sh |-> IF sh = 0 THEN ShaderInit ELSE m_shader[sh],
      objs |-> glObjects,
      gl |-> gl[1],
      log |-> IF sh = 0 THEN LogInit ELSE uniformLog[sh],
      call |-> [ CallInit EXCEPT !.kind = kind, !.shader = sh,
                                 !.handleAtEntry = IF sh = 0 THEN 0
                                                  ELSE m_shader[sh].m_shaderProgram,
                                 !.texturesAtEntry = IF sh = 0 THEN 0
                                                    ELSE Cardinality(DOMAIN m_shader[sh].m_textures) ] ]

\* The world a Shader call leaves behind
ShaderCommit(sh, r) ==
    /\ m_shader' = IF sh = 0 THEN m_shader ELSE [ m_shader EXCEPT ![sh] = r.sh ]
    /\ glObjects' = r.objs
    /\ gl' = [ gl EXCEPT ![1] = r.gl ]
    /\ lastCall' = r.call
    /\ uniformLog' = IF sh = 0 THEN uniformLog ELSE [ uniformLog EXCEPT ![sh] = r.log ]
    /\ UNCHANGED << platform, contextRenderTargetMap, m_cache, m_view, lastOp,
                    warned, err, thrVars, auxVars >>

Compile(sh, codes, statuses) ==
    \E code \in codes, status \in statuses :
        LET w == ShaderWorld(sh, "compile")
        IN  ShaderCommit(sh, compile([ w EXCEPT !.call.geometry = code.geometry,
                                                !.log = LogInit ],
                                     code, status))

SetUniformTexture(sh, names, textures) ==
    \E name \in names, texture \in textures :
        LET w == ShaderWorld(sh, "setUniformTexture")
        IN  ShaderCommit(sh, setUniformTexture([ w EXCEPT !.call.name = name,
                                                          !.call.texture = texture ],
                                               name, texture))

SetUniformCurrentTexture(sh, names) ==
    \E name \in names :
        LET w == ShaderWorld(sh, "setUniformCurrentTexture")
        IN  ShaderCommit(sh, setUniformCurrentTexture([ w EXCEPT !.call.name = name ], name))

Bind(sh) ==
    ShaderCommit(sh, bind(ShaderWorld(sh, "bind"), sh = 0, ShaderWorld(sh, "bind").sh))

LinkingCode == { [ vertex |-> TRUE, geometry |-> FALSE, fragment |-> TRUE ] }
LinkingStatus == { [ vertex |-> TRUE, geometry |-> TRUE, fragment |-> TRUE, link |-> TRUE ] }

\* Compilation and binding of two shaders: the first one is compiled from
\* every shape of sources with every verdict of the driver and is given
\* texture uniforms, the second one is compiled once and links
NextShader ==
    \/ Compile(1, CompileCodes, CompileStatuses)
    \/ m_shader[2].m_shaderProgram = 0 /\ Compile(2, LinkingCode, LinkingStatus)
    \/ SetUniformTexture(1, FewNames, { PlainTexture.cacheId })
    \/ SetUniformCurrentTexture(1, FewNames)
    \/ \E sh \in ShaderIds \cup { 0 } : Bind(sh)

SpecShader == Init /\ [][NextShader]_vars

\* One shader that is compiled, given two textures under every uniform
\* name, and bound
NextTextures ==
    \/ Compile(1, LinkingCode, LinkingStatus)
    \/ SetUniformTexture(1, UniformNames, { PlainTexture.cacheId, FboTexture.cacheId })
    \/ SetUniformCurrentTexture(1, FewNames)
    \/ \E sh \in { 0, 1 } : Bind(sh)

SpecTextures == Init /\ [][NextTextures]_vars

\* ------------------------------------- setUniform by concurrent threads
\* The world of the setUniform call of thread th: its context and binder
BinderWorld(th, sh) ==
    [ p |-> platform, sh |-> m_shader[sh], objs |-> glObjects,
      gl |-> gl[getActiveContextId(th)], log |-> uniformLog[sh],
      call |-> binder[th] ]

BinderCommit(th, sh, r) ==
    /\ m_shader' = [ m_shader EXCEPT ![sh] = r.sh ]
    /\ gl' = [ gl EXCEPT ![getActiveContextId(th)] = r.gl ]
    /\ binder' = [ binder EXCEPT ![th] = r.call ]
    /\ UNCHANGED restVars
    /\ uniformLog' = [ uniformLog EXCEPT ![sh] = r.log ]
    /\ UNCHANGED << platform, contextRenderTargetMap, m_cache, m_view, lastOp,
                    warned, err, glObjects, lastCall,
                    mutexOwner, nextId, thrArg, thrId >>

\* No thread is inside a call on shader sh: the callers serialize the
\* access to one shader instance
Unused(sh) == \A th \in Threads : pc[th] = "idle" \/ binder[th].shader # sh

\* setUniform(name, x) starts: "UniformBinder binder(*this, name)"
SetUniformBegin(th) ==
    /\ pc[th] = "idle"
    /\ \E sh \in ShaderIds, name \in FewNames :
         /\ Unused(sh)
         /\ LET w == BinderWorld(th, sh)
                b == [ BinderInit EXCEPT
                         !.shader = sh, !.name = name,
                         !.currentProgram = m_shader[sh].m_shaderProgram,
                         !.programAtEntry = gl[getActiveContextId(th)].program ]
            IN  BinderCommit(th, sh, UniformBinder([ w EXCEPT !.call = b ], name))
    /\ pc' = [ pc EXCEPT ![th] = "setUniform_set" ]

\* setUniform(name, x): "if (binder.location != -1) glUniform1f(...)", which
\* sets the uniform of the program in use
SetUniformValue(th) ==
    /\ pc[th] = "setUniform_set"
    /\ binder' = [ binder EXCEPT ![th].uniformSetIn =
                      IF binder[th].location # -1
                      THEN gl[getActiveContextId(th)].program
                      ELSE 0 ]
    /\ pc' = [ pc EXCEPT ![th] = "setUniform_end" ]
    /\ UNCHANGED << rtVars, shVars, restVars, mutexOwner, nextId, thrArg, thrId >>

\* setUniform(name, x) returns: the binder is destroyed
SetUniformEnd(th) ==
    /\ pc[th] = "setUniform_end"
    /\ LET r == UniformBinderDestroy(BinderWorld(th, binder[th].shader))
       IN  BinderCommit(th, binder[th].shader,
                        [ r EXCEPT !.call = [ BinderInit EXCEPT
                                                !.restored = r.call.restored,
                                                !.returned = TRUE ] ])
    /\ pc' = [ pc EXCEPT ![th] = "idle" ]

\* Shader::bind(shader) by thread th, in its context
BindIn(th) ==
    /\ pc[th] = "idle"
    /\ \E sh \in ShaderIds \cup { 0 } :
         gl' = [ gl EXCEPT ![getActiveContextId(th)] =
                   bind([ BinderWorld(th, IF sh = 0 THEN 1 ELSE sh) EXCEPT
                            !.call = CallInit ], sh = 0,
                        IF sh = 0 THEN ShaderInit ELSE m_shader[sh]).gl ]
    /\ UNCHANGED << platform, contextRenderTargetMap, m_cache, m_view, lastOp,
                    warned, err, shVars, thrVars, auxVars >>

\* The first compile of shader sh, which links, while no thread uses the
\* shader
CompileUnused(sh) ==
    /\ Unused(sh)
    /\ m_shader[sh].m_shaderProgram = 0
    /\ Compile(sh, LinkingCode, LinkingStatus)

\* Two threads, each with its own context, that bind shaders and set
\* uniforms of shaders no other thread is using
NextBinder ==
    \/ \E sh \in ShaderIds : CompileUnused(sh)
    \/ \E th \in Threads :
          \/ BindIn(th)
          \/ SetUniformBegin(th)
          \/ SetUniformValue(th)
          \/ SetUniformEnd(th)

SpecBinder == Init /\ [][NextBinder]_vars

\* ------------------------------------ the capability probes under threads
\* sf::Mutex::lock and the constructor of TransientContextLock: the caller
\* waits while another thread holds the lock; the holder may take it again
CanLock(m, th) == locks[m].owner \in { 0, th }

lock(m, th) ==
    [ locks EXCEPT ![m] = [ owner |-> th, count |-> @.count + 1 ] ]

\* sf::Mutex::unlock and the destructor of TransientContextLock
unlock(m) ==
    [ locks EXCEPT ![m] = IF @.count = 1
                          THEN [ owner |-> 0, count |-> 0 ]
                          ELSE [ @ EXCEPT !.count = @ - 1 ] ]

\* The innermost call of thread th is fn, at position at
In(th, fn, at) ==
    /\ stack[th] # << >>
    /\ stack[th][Len(stack[th])].fn = fn
    /\ stack[th][Len(stack[th])].at = at

Goto(th, at) == [ stack[th] EXCEPT ![Len(stack[th])].at = at ]

\* The call of fn made at this position, which continues at position at
CallFrom(th, at, fn) ==
    [ stack EXCEPT ![th] = Append(Goto(th, at), [ fn |-> fn, at |-> "lock" ]) ]

Jump(th, at) == [ stack EXCEPT ![th] = Goto(th, at) ]

Leave(th) == [ stack EXCEPT ![th] = SubSeq(stack[th], 1, Len(stack[th]) - 1) ]

\* The mutex a memoized function takes on entry
MutexOf(fn) ==
    IF fn = "getMaxTextureUnits" THEN "maxTextureUnitsMutex" ELSE "isAvailableMutex"

Memoized == { "isAvailable", "isGeometryAvailable", "getMaxTextureUnits" }

\* The calls that begin with "TransientContextLock lock;"
ContextLocked == { "compile", "compileGeometry", "bind", "setUniform", "setUniformTexture" }

\* A thread outside every call starts one; getMaxTextureUnits is local to
\* Shader.cpp and is reached through setUniform(name, texture) only
CallShader(th) ==
    /\ stack[th] = << >>
    /\ \E fn \in { "isAvailable", "isGeometryAvailable" } \cup ContextLocked :
         stack' = [ stack EXCEPT ![th] = << [ fn |-> fn, at |-> "lock" ] >> ]
    /\ UNCHANGED << rtVars, shVars, thrVars, binder, extraVars, moreVars, statics, locks, returned >>

\* "Lock lock(isAvailableMutex);" / "sf::Lock lock(maxTextureUnitsMutex);"
MemoLock(th) ==
    \E fn \in Memoized :
        /\ In(th, fn, "lock")
        /\ CanLock(MutexOf(fn), th)
        /\ locks' = lock(MutexOf(fn), th)
        /\ stack' = Jump(th, "check")
        /\ UNCHANGED << rtVars, shVars, thrVars, binder, extraVars, moreVars, statics, returned >>

\* The flag is left as it was
markChecked_Never(st, fn) == st

\* "checked = true" of isAvailable and isGeometryAvailable
markChecked(st, fn) == [ st EXCEPT ![fn].checked = TRUE ]

\* "if (!checked) { checked = true;"
AvailableCheck(th) ==
    \E fn \in { "isAvailable", "isGeometryAvailable" } :
        /\ In(th, fn, "check")
        /\ IF statics[fn].checked
           THEN /\ stack' = Jump(th, "return")
                /\ UNCHANGED statics
           ELSE /\ stack' = Jump(th, "contextLock")
                /\ statics' = markChecked(statics, fn)
        /\ UNCHANGED << rtVars, shVars, thrVars, binder, extraVars, moreVars, locks, returned >>

\* "TransientContextLock contextLock;" inside the probe
ProbeContextLock(th) ==
    \E fn \in { "isAvailable", "isGeometryAvailable" } :
        /\ In(th, fn, "contextLock")
        /\ CanLock("contextLock", th)
        /\ locks' = lock("contextLock", th)
        /\ stack' = Jump(th, "probe")
        /\ UNCHANGED << rtVars, shVars, thrVars, binder, extraVars, moreVars, statics, returned >>

\* The result of a probe is stored
store(st, fn, value) ==
    [ st EXCEPT ![fn].available = value, ![fn].runs = @ + 1 ]

\* isAvailable: "available = ..." and the end of the probe's scope
IsAvailableProbe(th) ==
    /\ In(th, "isAvailable", "probe")
    /\ statics' = store(statics, "isAvailable", isAvailable(platform))
    /\ locks' = unlock("contextLock")
    /\ stack' = Jump(th, "return")
    /\ UNCHANGED << rtVars, shVars, thrVars, binder, extraVars, moreVars, returned >>

\* isGeometryAvailable: "available = false" on OpenGL ES; otherwise
\* "isAvailable() && ..." starts with the call of isAvailable
IsGeometryAvailableProbe(th) ==
    /\ In(th, "isGeometryAvailable", "probe")
    /\ IF platform.es
       THEN /\ statics' = store(statics, "isGeometryAvailable", FALSE)
            /\ locks' = unlock("contextLock")
            /\ stack' = Jump(th, "return")
       ELSE /\ stack' = CallFrom(th, "probed", "isAvailable")
            /\ UNCHANGED << statics, locks >>
    /\ UNCHANGED << rtVars, shVars, thrVars, binder, extraVars, moreVars, returned >>

\* isGeometryAvailable: "available = isAvailable() && (GLEXT_geometry_shader4
\* || GLEXT_GL_VERSION_3_2)" once isAvailable has returned
IsGeometryAvailableStore(th) ==
    /\ In(th, "isGeometryAvailable", "probed")
    /\ statics' = store(statics, "isGeometryAvailable",
                        returned[th].value /\ platform.geometry_shader4)
    /\ locks' = unlock("contextLock")
    /\ stack' = Jump(th, "return")
    /\ UNCHANGED << rtVars, shVars, thrVars, binder, extraVars, moreVars, returned >>

\* getMaxTextureUnits: "static GLint maxUnits = checkMaxTextureUnits();",
\* whose initialiser runs the first time control passes through it
MaxTextureUnitsInit(th) ==
    /\ In(th, "getMaxTextureUnits", "check")
    /\ statics' = IF statics.getMaxTextureUnits.checked
                  THEN statics
                  ELSE [ markChecked(statics, "getMaxTextureUnits") EXCEPT
                           !.getMaxTextureUnits.maxUnits = getMaxTextureUnits,
                           !.getMaxTextureUnits.runs = @ + 1 ]
    /\ stack' = Jump(th, "return")
    /\ UNCHANGED << rtVars, shVars, thrVars, binder, extraVars, moreVars, locks, returned >>

\* "return available;" / "return maxUnits": the value is read and the
\* scope of the mutex ends
MemoReturn(th) ==
    \E fn \in Memoized :
        /\ In(th, fn, "return")
        /\ returned' = [ returned EXCEPT ![th] =
                           [ fn |-> fn, value |-> statics[fn].available,
                             maxUnits |-> statics[fn].maxUnits ] ]
        /\ locks' = unlock(MutexOf(fn))
        /\ stack' = Leave(th)
        /\ UNCHANGED << rtVars, shVars, thrVars, binder, extraVars, moreVars, statics >>

\* compile, bind, setUniform: "TransientContextLock lock;"
ContextLock(th) ==
    \E fn \in ContextLocked :
        /\ In(th, fn, "lock")
        /\ CanLock("contextLock", th)
        /\ locks' = lock("contextLock", th)
        /\ stack' = IF fn \in { "compile", "compileGeometry", "bind" }
                    THEN CallFrom(th, "checked", "isAvailable")
                    ELSE IF fn = "setUniformTexture"
                    THEN CallFrom(th, "return", "getMaxTextureUnits")
                    ELSE Jump(th, "return")
        /\ UNCHANGED << rtVars, shVars, thrVars, binder, extraVars, moreVars, statics, returned >>

\* compile: "if (!isAvailable()) return false;
\* if (geometryShaderCode && !isGeometryAvailable())"; bind:
\* "if (!isAvailable()) return;"
AvailabilityChecked(th) ==
    \E fn \in { "compile", "compileGeometry", "bind" } :
        /\ In(th, fn, "checked")
        /\ stack' = IF fn = "compileGeometry" /\ returned[th].value
                    THEN CallFrom(th, "return", "isGeometryAvailable")
                    ELSE Jump(th, "return")
        /\ UNCHANGED << rtVars, shVars, thrVars, binder, extraVars, moreVars, statics, locks, returned >>

\* compile, bind, setUniform return: the scope of the context lock ends
ContextUnlock(th) ==
    \E fn \in ContextLocked :
        /\ In(th, fn, "return")
        /\ locks' = unlock("contextLock")
        /\ stack' = Leave(th)
        /\ UNCHANGED << rtVars, shVars, thrVars, binder, extraVars, moreVars, statics, returned >>

\* A step inside a call of thread th
StepShader(th) ==
    \/ MemoLock(th)
    \/ AvailableCheck(th)
    \/ ProbeContextLock(th)
    \/ IsAvailableProbe(th)
    \/ IsGeometryAvailableProbe(th)
    \/ IsGeometryAvailableStore(th)
    \/ MaxTextureUnitsInit(th)
    \/ MemoReturn(th)
    \/ ContextLock(th)
    \/ AvailabilityChecked(th)
    \/ ContextUnlock(th)

NextLocks == \E th \in Threads : CallShader(th) \/ StepShader(th)

SpecLocks == Init /\ [][NextLocks]_vars

\* A thread inside a call never stops by itself, and a thread that waits
\* for a lock gets it when the lock is free again and again
SpecLocksFair == SpecLocks /\ \A th \in Threads : SF_vars(StepShader(th))

\* --------------------------------------- the default shaders under threads
\* setupDraw on OpenGL ES, without a shader in the states: the draw of
\* thread th, in its own context and on its own target, asks for the
\* default shader, the textured one when the states have a texture
GetDefault(th) ==
    /\ platform.es
    /\ stack[th] = << >>
    /\ \E fn \in DefaultShaders :
         stack' = [ stack EXCEPT ![th] = << [ fn |-> fn, at |-> "first" ] >> ]
    /\ UNCHANGED << rtVars, shVars, thrVars, binder, extraVars, statics, locks, returned, defaults >>

\* "if (first)"
DefaultFirst(th) ==
    \E fn \in DefaultShaders :
        /\ In(th, fn, "first")
        /\ stack' = Jump(th, IF defaults[fn].first THEN "lock" ELSE "return")
        /\ UNCHANGED << rtVars, shVars, thrVars, binder, extraVars, statics, locks,
                        returned, defaults >>

\* "instance.loadFromMemory(...)": compile starts with
\* "TransientContextLock lock;"
DefaultLock(th) ==
    \E fn \in DefaultShaders :
        /\ In(th, fn, "lock")
        /\ CanLock("contextLock", th)
        /\ locks' = lock("contextLock", th)
        /\ stack' = Jump(th, "compile")
        /\ UNCHANGED << rtVars, shVars, thrVars, binder, extraVars, statics, returned, defaults >>

\* One more compilation of a default shader
compiled(d, fn) == [ d EXCEPT ![fn].compiles = @ + 1 ]

\* "instance.loadFromMemory(...)": the instance is compiled from its vertex
\* and fragment sources, in the context of the thread
DefaultCompile(th) ==
    \E fn \in DefaultShaders, code \in LinkingCode, status \in LinkingStatus :
        /\ In(th, fn, "compile")
        /\ LET r == compile([ BinderWorld(th, instance(fn)) EXCEPT
                                !.call = [ CallInit EXCEPT
                                             !.kind = "compile",
                                             !.shader = instance(fn),
                                             !.handleAtEntry =
                                                 m_shader[instance(fn)].m_shaderProgram ],
                                !.log = LogInit ],
                            code, status)
           IN  /\ m_shader' = [ m_shader EXCEPT ![instance(fn)] = r.sh ]
               /\ glObjects' = r.objs
               /\ gl' = [ gl EXCEPT ![getActiveContextId(th)] = r.gl ]
               /\ lastCall' = r.call
               /\ uniformLog' = [ uniformLog EXCEPT ![instance(fn)] = r.log ]
        /\ defaults' = compiled(defaults, fn)
        /\ locks' = unlock("contextLock")
        /\ stack' = Jump(th, "loaded")
        /\ UNCHANGED << platform, contextRenderTargetMap, m_cache, m_view, lastOp,
                        warned, err, thrVars, binder, extraVars, statics, returned >>

\* "first = false;"
DefaultLoaded(th) ==
    \E fn \in DefaultShaders :
        /\ In(th, fn, "loaded")
        /\ defaults' = [ defaults EXCEPT ![fn].first = FALSE ]
        /\ stack' = Jump(th, "return")
        /\ UNCHANGED << rtVars, shVars, thrVars, binder, extraVars, statics, locks, returned >>

\* "return instance;": the draw goes on with the program of the instance
DefaultReturn(th) ==
    \E fn \in DefaultShaders :
        /\ In(th, fn, "return")
        /\ stack' = Leave(th)
        /\ UNCHANGED << rtVars, shVars, thrVars, binder, extraVars, statics, locks,
                        returned, defaults >>

NextDefaults ==
    \E th \in Threads :
        \/ GetDefault(th)
        \/ DefaultFirst(th)
        \/ DefaultLock(th)
        \/ DefaultCompile(th)
        \/ DefaultLoaded(th)
        \/ DefaultReturn(th)

SpecDefaults == Init /\ [][NextDefaults]_vars

\* ------------------------------------------------ destruction of targets
\* "RenderTarget::~RenderTarget() { }": the body is empty, the tracking map
\* is left as it is
destroyTarget(map, id) == map

\* The destructor of target id runs, in any thread
Destroy(id) ==
    /\ id \notin destroyed
    /\ destroyed' = destroyed \cup { id }
    /\ contextRenderTargetMap' = destroyTarget(contextRenderTargetMap, id)
    /\ UNCHANGED << platform, m_cache, m_view, gl, lastOp, warned, err,
                    shVars, thrVars, binder, lockVars, moreVars, joystick >>

\* Targets that are activated and deactivated in two contexts until they
\* are destroyed
NextDestroy ==
    \E id \in Targets :
        \/ \E ctx \in Contexts : id \notin destroyed /\ SetActive(id, ctx)
        \/ Destroy(id)

SpecDestroy == Init /\ [][NextDestroy]_vars

\* ------------------------------------------------- the joystick events
\* lazyInitJoystick that gives every device the first index
lazyIndex_First(j, deviceId) == 0

\* lazyInitJoystick(deviceId): "index = std::distance(...)" when a record
\* of the list has the device id, "index = joystickList.size()" otherwise
lazyIndex(j, deviceId) ==
    IF \E k \in 1 .. Len(j.joystickList) : j.joystickList[k].deviceId = deviceId
    THEN (CHOOSE k \in 1 .. Len(j.joystickList) :
             /\ j.joystickList[k].deviceId = deviceId
             /\ \A l \in 1 .. k - 1 : j.joystickList[l].deviceId # deviceId) - 1
    ELSE Len(j.joystickList)

\* "joystickList.resize(index + 1)" when the index is the size of the list
lazyResize(j, index) ==
    IF index = Len(j.joystickList)
    THEN [ j EXCEPT !.joystickList = Append(@, JoystickRecord) ]
    ELSE j

lazyRegister(j, deviceId, index) ==
    [ lazyResize(j, index) EXCEPT
        !.joystickMapIndex = MapPut(@, deviceId, index),
        !.joystickList[index + 1].deviceId = deviceId,
        !.joystickList[index + 1].state.connected = TRUE ]

lazyInitJoystick(j, deviceId) ==
    IF deviceId \notin DOMAIN j.joystickMapIndex
    THEN lazyRegister(j, deviceId, lazyIndex(j, deviceId))
    ELSE j

\* getState(deviceId): the index (from 1) of the record whose state is
\* returned, 0 for nullptr
getState(j, deviceId) ==
    IF deviceId \notin DOMAIN j.joystickMapIndex THEN 0
    ELSE IF j.joystickMapIndex[deviceId] >= Len(j.joystickList) THEN 0
    ELSE j.joystickMapIndex[deviceId] + 1

\* update(): "switch (event.type)" on the state of the device
applyKey(state, event) ==
    [ state EXCEPT
        !.buttons = IF event.index < ButtonCount
                    THEN [ @ EXCEPT ![event.index] = event.pressed ]
                    ELSE @,
        !.connected = TRUE ]

applyMotion(state, event) ==
    [ state EXCEPT
        !.axes = [ a \in DOMAIN AxisField |-> event.motion[AxisField[a]] * 100 ],
        !.connected = TRUE ]

applyConnection(state, event) == [ state EXCEPT !.connected = event.pressed ]

applySwitch(state, event) ==
    IF event.type = "Key" THEN applyKey(state, event)
    ELSE IF event.type = "Motion" THEN applyMotion(state, event)
    ELSE IF event.type = "Connection" THEN applyConnection(state, event)
    ELSE state

\* update(): "if (statePtr != nullptr) { ... }", noting the rank of the
\* event whose switch has run
applyTo(j, event, k) ==
    IF k = 0 THEN j
    ELSE [ j EXCEPT !.joystickList[k].state = applySwitch(@, event),
                    !.applied = Append(@, event.n) ]

\* update(): the body of the loop for one event
applyEvent(j, event) ==
    applyTo(lazyInitJoystick(j, event.deviceId), event,
            getState(lazyInitJoystick(j, event.deviceId), event.deviceId))

\* The queue keeps its events
eventsClear_KeepsEvents(events) == events

\* update(): "events.clear()"
eventsClear(events) == << >>

\* update(): "m_state = joystickList[m_index].state" or
\* "m_state.connected = false"
currentState(j) ==
    IF j.m_index < Len(j.joystickList)
    THEN [ j EXCEPT !.m_state = j.joystickList[j.m_index + 1].state ]
    ELSE [ j EXCEPT !.m_state.connected = FALSE ]

\* The events a thread passes to pushEvent: a button pressed on one of two
\* devices and, on the first device, a button beyond ButtonCount, a motion
\* and a disconnection
JoystickDevices == { 7, 9 }

JoystickEvents ==
    { [ JoystickEventInit EXCEPT !.deviceId = d, !.type = "Key", !.index = 0,
                                 !.pressed = TRUE ] : d \in JoystickDevices } \cup
    { [ JoystickEventInit EXCEPT !.deviceId = 7, !.type = "Key", !.pressed = TRUE ],
      [ JoystickEventInit EXCEPT !.deviceId = 7, !.type = "Motion",
                                 !.motion.xAxis = 1, !.motion.yHatAxis = -1 ],
      [ JoystickEventInit EXCEPT !.deviceId = 7, !.type = "Connection" ] }

JoystickUnchanged ==
    UNCHANGED << rtVars, shVars, thrVars, binder, lockVars, moreVars, destroyed >>

\* pushEvent(event): "Lock guard(eventMutex);"
PushEventLock(pushed, limit) ==
    /\ joystick.push = "idle"
    /\ joystick.eventMutex = 0
    /\ Len(joystick.history) < limit
    /\ \E event \in pushed :
         joystick' = [ joystick EXCEPT
                         !.eventMutex = 2, !.push = "locked",
                         !.event = [ event EXCEPT !.n = Len(joystick.history) + 1 ] ]
    /\ JoystickUnchanged

\* pushEvent(event): "events.push_back(std::move(event));", the scope of
\* the guard ends
PushEventBack ==
    /\ joystick.push = "locked"
    /\ joystick' = [ joystick EXCEPT
                       !.events = Append(@, joystick.event),
                       !.history = Append(@, joystick.event),
                       !.event = JoystickEventInit,
                       !.eventMutex = 0, !.push = "idle" ]
    /\ JoystickUnchanged

\* update(): "Lock guard(eventMutex);", the loop starts
UpdateLock ==
    /\ joystick.update = "idle"
    /\ joystick.eventMutex = 0
    /\ joystick' = [ joystick EXCEPT !.eventMutex = 1, !.update = "loop", !.it = 1 ]
    /\ JoystickUnchanged

\* update(): one turn of "for (const JoystickEvent& event: events)"
UpdateEvent ==
    /\ joystick.update = "loop"
    /\ joystick.it <= Len(joystick.events)
    /\ joystick' = [ applyEvent(joystick, joystick.events[joystick.it]) EXCEPT
                       !.it = @ + 1,
                       !.raced = @ \/ (joystick.poll = "read") ]
    /\ JoystickUnchanged

\* update(): "events.clear();", the scope of the guard ends
UpdateClear ==
    /\ joystick.update = "loop"
    /\ joystick.it > Len(joystick.events)
    /\ joystick' = [ joystick EXCEPT
                       !.events = eventsClear(@), !.it = 0,
                       !.eventMutex = 0, !.update = "current" ]
    /\ JoystickUnchanged

\* update(): the state of the joystick of this object is copied and
\* returned
UpdateReturn ==
    /\ joystick.update = "current"
    /\ joystick' = [ currentState(joystick) EXCEPT !.update = "idle" ]
    /\ JoystickUnchanged

\* One thread calls update again and again while another thread pushes
\* events
NextJoystick ==
    \/ PushEventLock(JoystickEvents, MaxEvents)
    \/ PushEventBack
    \/ UpdateLock
    \/ UpdateEvent
    \/ UpdateClear
    \/ UpdateReturn

SpecJoystick == Init /\ [][NextJoystick]_vars

\* isConnected(index): "index < joystickList.size() &&
\* joystickList[index].state.connected"
alreadyConnected(j, index) ==
    IF index < Len(j.joystickList)
    THEN j.joystickList[index + 1].state.connected
    ELSE FALSE

\* isConnected(index): "for (const JoystickEvent& event: events)
\* lazyInitJoystick(event.deviceId);" from the event at position i on
RECURSIVE registerEvents(_, _)
registerEvents(j, i) ==
    IF i > Len(j.events) THEN j
    ELSE registerEvents(lazyInitJoystick(j, j.events[i].deviceId), i + 1)

\* open(index): "if (index < joystickList.size())
\* joystickList[index].state.connected = true;"
openRecord(j, index) ==
    IF index < Len(j.joystickList)
    THEN [ j EXCEPT !.joystickList[index + 1].state.connected = TRUE ]
    ELSE j

\* open(index): "m_index = index; m_state.connected = true;"
openMembers(j, index) == [ j EXCEPT !.m_index = index, !.m_state.connected = TRUE ]

\* The indices passed to isConnected and to open
JoystickIndexes == { 0, 1 }

\* isConnected(index): the read of the list starts, no lock is taken
IsConnectedRead ==
    /\ joystick.poll = "idle"
    /\ \E index \in JoystickIndexes :
         joystick' = [ joystick EXCEPT !.poll = "read", !.index = index,
                                       !.result = FALSE, !.raced = FALSE ]
    /\ JoystickUnchanged

\* isConnected(index): "if (alreadyConnected) return true;"; a read that
\* overlapped a change of the list by another thread is a data race and
\* may give either answer
IsConnectedTest ==
    /\ joystick.poll = "read"
    /\ \E already \in (IF joystick.raced THEN BOOLEAN
                       ELSE { alreadyConnected(joystick, joystick.index) }) :
         joystick' = IF already
                     THEN [ joystick EXCEPT !.poll = "idle", !.result = TRUE,
                                            !.index = 0, !.raced = FALSE ]
                     ELSE [ joystick EXCEPT !.poll = "wait" ]
    /\ JoystickUnchanged

\* isConnected(index): "Lock guard(eventMutex);"
IsConnectedLock ==
    /\ joystick.poll = "wait"
    /\ joystick.eventMutex = 0
    /\ joystick' = [ joystick EXCEPT !.eventMutex = 3, !.poll = "locked" ]
    /\ JoystickUnchanged

\* isConnected(index): the loop over the events and the return under the
\* lock; a write of open in progress in another thread has raced with a
\* change of the list
IsConnectedReturn ==
    /\ joystick.poll = "locked"
    /\ joystick' = [ registerEvents(joystick, 1) EXCEPT
                       !.result = alreadyConnected(registerEvents(joystick, 1),
                                                   joystick.index),
                       !.openRaced = @ \/ ( /\ joystick.update = "open"
                                            /\ registerEvents(joystick, 1).joystickList
                                                 # joystick.joystickList ),
                       !.eventMutex = 0, !.poll = "idle",
                       !.index = 0, !.raced = FALSE ]
    /\ JoystickUnchanged

\* open(index): the write of the list starts, no lock is taken
OpenWrite ==
    /\ joystick.update = "idle"
    /\ \E index \in JoystickIndexes :
         joystick' = [ joystick EXCEPT !.update = "open", !.openIndex = index,
                                       !.openRaced = FALSE ]
    /\ JoystickUnchanged

\* open(index) returns; a write that overlapped a resize of the list by
\* another thread is a data race and may be lost; a read of isConnected in
\* progress in another thread has raced with the write
OpenReturn ==
    /\ joystick.update = "open"
    /\ \E written \in (IF joystick.openRaced THEN BOOLEAN ELSE { TRUE }) :
         joystick' = [ openMembers(IF written
                                   THEN openRecord(joystick, joystick.openIndex)
                                   ELSE joystick, joystick.openIndex) EXCEPT
                         !.update = "idle",
                         !.openIndex = 0, !.openRaced = FALSE,
                         !.raced = @ \/ (joystick.poll = "read" /\ written) ]
    /\ JoystickUnchanged

\* The events pushed while the joysticks are polled: a button pressed on
\* each of two devices and the disconnection of the first device
PolledEvents ==
    { [ JoystickEventInit EXCEPT !.deviceId = d, !.type = "Key", !.index = 0,
                                 !.pressed = TRUE ] : d \in JoystickDevices } \cup
    { [ JoystickEventInit EXCEPT !.deviceId = 7, !.type = "Connection" ] }

\* One thread calls update and open, another pushes events (one fewer than
\* in NextJoystick) and a third calls isConnected
NextPolled ==
    \/ PushEventLock(PolledEvents, MaxEvents - 1)
    \/ PushEventBack
    \/ UpdateLock
    \/ UpdateEvent
    \/ UpdateClear
    \/ UpdateReturn
    \/ OpenWrite
    \/ OpenReturn
    \/ IsConnectedRead
    \/ IsConnectedTest
    \/ IsConnectedLock
    \/ IsConnectedReturn

SpecPolled == Init /\ [][NextPolled]_vars

\* ------------------------------------------------------------ properties
\* The last call was a draw that passed its checks and its guard
IsDraw(op) == op.kind \in { "draw", "drawVertexBuffer" } /\ op.accepted

\* Some of the 6 components of two blend modes differ
BlendDiffers(a, b) == \E f \in BlendFields : a[f] # b[f]

TextureIdOf(texture) == IF texture.null THEN 0 ELSE texture.cacheId

C2_FlagFalseOnEntry ==
    ( IsDraw(lastOp) /\ lastOp.trackerAtEntry \notin { 0, lastOp.target } )
        => ~ lastOp.enableAtEntry

\* C2 amended: the activation of B never touches the cache of A, so the flag
\* of A may still be true when its next call begins; the setActive(true) of
\* A's own guard clears it, so the draw setup starts with the flag false and
\* applies transform, view, blend mode and texture again.
C2_TakeoverInvalidatesInGuard ==
    /\ [] ( ( IsDraw(lastOp) /\ lastOp.trackerAtEntry \notin { 0, lastOp.target } )
              => ( /\ ~ lastOp.enableAtSetup
                   /\ lastOp.transformCalls >= 1
                   /\ lastOp.viewCalls >= 1
                   /\ lastOp.blendCalls >= 1
                   /\ lastOp.textureCallsAtDraw >= 1 ) )
    /\ [][ \A t \in Targets : (t # lastOp'.target) => (m_cache'[t] = m_cache[t]) ]_vars

\* A draw of A after B took the context over, A's flag still true on entry
C2_Witness ==
    /\ IsDraw(lastOp)
    /\ lastOp.trackerAtEntry \notin { 0, lastOp.target }
    /\ lastOp.enableAtEntry
    /\ ~ lastOp.enableAtSetup
    /\ lastOp.resets = 0

\* C3: a draw that starts its setup with the cache valid directly follows a
\* draw of the same target in the same context: in the sequence draw(A in
\* C1), draw(A in C2), draw(A in C1) the third draw must not trust the cache.
C3_ValidCacheMeansSameContext ==
    [][ ( /\ IsDraw(lastOp) /\ IsDraw(lastOp')
          /\ lastOp'.target = lastOp.target
          /\ lastOp'.enableAtSetup )
        => (lastOp'.ctx = lastOp.ctx) ]_vars

\* The vertex arrays a submitted draw reads from
RequiredArrays(op) ==
    LET program == usedShaderOf(op.states).program
        texCoords == \/ op.kind = "drawVertexBuffer"
                     \/ ~ op.states.texture.null
                     \/ ~ op.states.shader.null
    IN  IF platform.es
        THEN ( { AttribLocation(program, "position"), AttribLocation(program, "color") }
               \cup (IF texCoords THEN { AttribLocation(program, "texCoord") } ELSE {}) )
             \ { -1 }
        ELSE { VertexArray, ColorArray }
             \cup (IF texCoords THEN { TexCoordArray } ELSE {})

\* C4: a draw whose setup starts with the cache invalid applies transform,
\* view, blend mode and texture, has the vertex arrays it reads from enabled
\* when it submits its primitives, and leaves the cache valid.
C4_InvalidCacheReappliesAll ==
    ( IsDraw(lastOp) /\ ~ lastOp.enableAtSetup )
        => ( /\ lastOp.transformCalls >= 1
             /\ lastOp.viewCalls >= 1
             /\ lastOp.blendCalls >= 1
             /\ lastOp.textureCallsAtDraw >= 1
             /\ RequiredArrays(lastOp) \subseteq lastOp.arraysAtDraw
             /\ m_cache[lastOp.target].enable )

\* C5: Blend-mode memoization. After a draw the cached blend mode is the
\* one the draw asked for; a draw whose setup starts with the cache valid
\* calls applyBlendMode once if its blend mode differs from the cached one
\* in one of the 6 components and not at all otherwise; so of two draws in
\* a row the second applies the blend mode iff it differs from the first.
C5_BlendModeMemoization ==
    /\ [] ( IsDraw(lastOp) =>
              /\ m_cache[lastOp.target].lastBlendMode = lastOp.states.blendMode
              /\ ( lastOp.enableAtSetup =>
                     lastOp.blendCalls =
                         (IF BlendDiffers(lastOp.states.blendMode, lastOp.lastBlendAtSetup)
                          THEN 1 ELSE 0) ) )
    /\ [][ ( /\ IsDraw(lastOp) /\ IsDraw(lastOp')
             /\ lastOp'.target = lastOp.target
             /\ lastOp'.enableAtSetup )
           => ( (lastOp'.blendCalls >= 1)
                  <=> BlendDiffers(lastOp'.states.blendMode, lastOp.states.blendMode) ) ]_vars

\* A draw with a valid cache whose blend mode differs from the cached
\* BlendAlpha in the alpha equation only
C5_Witness ==
    /\ IsDraw(lastOp)
    /\ lastOp.enableAtSetup
    /\ lastOp.lastBlendAtSetup = BlendAlpha
    /\ lastOp.states.blendMode = [ BlendAlpha EXCEPT !.alphaEquation = "ReverseSubtract" ]
    /\ lastOp.blendCalls = 1

\* C6: Texture rebind rule. A draw binds its texture before submitting iff
\* its setup starts with the cache invalid, or the cache id of the texture
\* differs from the cached one, or the texture is an FBO attachment; a bound
\* texture is the one on unit 0 at submission; after a draw with an FBO
\* attachment the texture is unbound again and the cached id is 0, after
\* any other draw the cached id is the id of the texture drawn with.
C6_TextureRebindRule ==
    IsDraw(lastOp) =>
        LET texture == lastOp.states.texture
            fbo == (~ texture.null) /\ texture.fboAttachment
        IN  /\ (lastOp.textureCallsAtDraw >= 1)
                 <=> ( \/ ~ lastOp.enableAtSetup
                       \/ TextureIdOf(texture) # lastOp.lastTextureAtSetup
                       \/ fbo )
            /\ (lastOp.textureCallsAtDraw >= 1 => lastOp.textureAtDraw = TextureIdOf(texture))
            /\ ( fbo => /\ lastOp.textureCalls = lastOp.textureCallsAtDraw + 1
                        /\ gl[lastOp.ctx].texture = 0
                        /\ m_cache[lastOp.target].lastTextureId = 0 )
            /\ ( ~ fbo => /\ lastOp.textureCalls = lastOp.textureCallsAtDraw
                          /\ m_cache[lastOp.target].lastTextureId = TextureIdOf(texture) )

\* A draw with an FBO attachment by a target that just took the context
\* back: the cache is invalid without a reset, the texture is bound and
\* unbound after the draw
C6_Witness ==
    /\ IsDraw(lastOp)
    /\ ~ lastOp.enableAtSetup
    /\ lastOp.resets = 0
    /\ lastOp.states.texture = FboTexture
    /\ lastOp.textureCallsAtDraw = 1
    /\ lastOp.textureAtDraw = FboTexture.cacheId
    /\ gl[lastOp.ctx].texture = 0
    /\ m_cache[lastOp.target].lastTextureId = 0

\* C7: Vertex-cache threshold. After an accepted draw of count vertices the
\* cache's useVertexCache flag is (count <= VertexCacheSize); after an
\* accepted draw of a vertex buffer it is false.
C7_VertexCacheThreshold ==
    /\ ( (lastOp.kind = "draw" /\ lastOp.accepted) =>
           /\ lastOp.count >= 1
           /\ m_cache[lastOp.target].useVertexCache = (lastOp.count <= VertexCacheSize)
           /\ lastOp.submitted = lastOp.count )
    /\ ( (lastOp.kind = "drawVertexBuffer" /\ lastOp.accepted) =>
           ~ m_cache[lastOp.target].useVertexCache )

\* A draw of exactly VertexCacheSize vertices took the pre-transform path
C7_Witness ==
    /\ lastOp.kind = "draw"
    /\ lastOp.accepted
    /\ lastOp.count = VertexCacheSize
    /\ m_cache[lastOp.target].useVertexCache

\* C8: setActive(true) by target T in context C inserts (C, T) and marks the
\* cache of T "never applied" and "disabled" if C has no entry, overwrites
\* the entry and marks the cache "disabled" only if the entry names another
\* target, changes nothing if the entry names T; entries of other contexts
\* and caches of other targets never change.
C8_SetActiveTrue ==
    [][ (lastOp'.kind = "setActive" /\ lastOp'.active) =>
          LET t == lastOp'.target
              c == lastOp'.ctx
              map == contextRenderTargetMap
          IN  /\ (c \notin DOMAIN map) =>
                    /\ m_cache'[t] = [ m_cache[t] EXCEPT !.glStatesSet = FALSE, !.enable = FALSE ]
              /\ (c \in DOMAIN map /\ map[c] # t) =>
                    /\ m_cache'[t] = [ m_cache[t] EXCEPT !.enable = FALSE ]
              /\ (c \in DOMAIN map /\ map[c] = t) =>
                    /\ m_cache'[t] = m_cache[t]
              /\ DOMAIN contextRenderTargetMap' = (DOMAIN map) \cup { c }
              /\ contextRenderTargetMap'[c] = t
              /\ \A d \in (DOMAIN map) \ { c } : contextRenderTargetMap'[d] = map[d]
              /\ \A u \in Targets \ { t } : m_cache'[u] = m_cache[u] ]_vars

\* setActive(true) took a context over from another target while the
\* caller's cache was valid and another context was tracked as well
C8_Witness ==
    /\ lastOp.kind = "setActive"
    /\ lastOp.active
    /\ lastOp.trackerAtEntry \notin { 0, lastOp.target }
    /\ lastOp.enableAtEntry
    /\ ~ m_cache[lastOp.target].enable
    /\ m_cache[lastOp.target].glStatesSet
    /\ contextRenderTargetMap[lastOp.ctx] = lastOp.target
    /\ DOMAIN contextRenderTargetMap = Contexts

\* C9: setActive(false) by target T in context C erases the entry of C,
\* whatever target it names, changes no other entry, and marks the cache of
\* T disabled; every setActive call returns true.
C9_SetActiveFalse ==
    /\ [] ( lastOp.kind = "setActive" => lastOp.ret )
    /\ [][ (lastOp'.kind = "setActive" /\ ~ lastOp'.active) =>
             LET t == lastOp'.target
                 c == lastOp'.ctx
                 map == contextRenderTargetMap
             IN  /\ DOMAIN contextRenderTargetMap' = (DOMAIN map) \ { c }
                 /\ \A d \in (DOMAIN map) \ { c } : contextRenderTargetMap'[d] = map[d]
                 /\ m_cache'[t] = [ m_cache[t] EXCEPT !.enable = FALSE ]
                 /\ \A u \in Targets \ { t } : m_cache'[u] = m_cache[u] ]_vars

\* setActive(false) erased an entry naming another target and disabled a
\* valid cache
C9_Witness ==
    /\ lastOp.kind = "setActive"
    /\ ~ lastOp.active
    /\ lastOp.ret
    /\ lastOp.trackerAtEntry \notin { 0, lastOp.target }
    /\ lastOp.enableAtEntry
    /\ lastOp.ctx \notin DOMAIN contextRenderTargetMap
    /\ ~ m_cache[lastOp.target].enable

\* C10: every read and every write of the context->target map and of the
\* id generator is made by a thread that holds the tracker mutex, so no
\* thread is inside isActive's find while another thread is inside
\* setActive's critical section.
C10_TrackerAccessesHoldMutex ==
    \A th \in Threads :
        /\ ( pc[th] \in { "isActive_find", "setActive_locked", "getUniqueId_locked" }
               => mutexOwner = th )
        /\ ( pc[th] = "isActive_find"
               => \A o \in Threads : pc[o] # "setActive_locked" )

\* The call was a draw of an array that draw rejects before its guard
RejectedDraw(p, op) ==
    /\ op.kind = "draw"
    /\ ( \/ ~ op.vertices
         \/ op.count = 0
         \/ (p.es /\ op.type = "Quads") )

\* The call was a draw of a vertex buffer that draw rejects before its guard
RejectedBufferDraw(p, op) ==
    /\ op.kind = "drawVertexBuffer"
    /\ ( \/ ~ p.vertexBufferAvailable
         \/ op.firstVertex > op.bufferCount
         \/ Min(op.count, op.bufferCount - op.firstVertex) = 0
         \/ op.handle = 0
         \/ (p.es /\ op.type = "Quads") )

\* C11: a rejected draw (no vertices, count 0, quads on the ES backend; a
\* buffer draw without vertex buffer support, with firstVertex past the
\* buffer, with a clamped count of 0 or without native handle) submits
\* nothing and leaves the tracker map, every cache, every view and the GL
\* state of every context as they were, so that what follows starts from
\* the state it would start from without the call.
C11_RejectedDrawChangesNothing ==
    [][ ( RejectedDraw(platform, lastOp') \/ RejectedBufferDraw(platform, lastOp') )
        => ( /\ ~ lastOp'.accepted
             /\ lastOp'.submitted = 0
             /\ contextRenderTargetMap' = contextRenderTargetMap
             /\ m_cache' = m_cache
             /\ m_view' = m_view
             /\ gl' = gl ) ]_vars

\* A quads draw on the ES backend by a target that is not tracked in its
\* context and has a cache from earlier draws
C11_Witness ==
    /\ RejectedDraw(platform, lastOp)
    /\ platform.es
    /\ lastOp.type = "Quads"
    /\ lastOp.vertices
    /\ lastOp.count > 0
    /\ lastOp.trackerAtEntry = 0
    /\ m_cache[lastOp.target].glStatesSet
    /\ lastOp.ctx \notin DOMAIN contextRenderTargetMap

\* C12: draw(vertexBuffer, firstVertex, vertexCount) submits exactly
\* min(vertexCount, bufferCount - firstVertex) vertices starting at
\* firstVertex, so that firstVertex + submitted <= bufferCount; with
\* firstVertex > bufferCount nothing is submitted and the unsigned
\* subtraction bufferCount - firstVertex is not evaluated.
C12_BufferDrawClamps ==
    lastOp.kind = "drawVertexBuffer" =>
        /\ ( lastOp.firstVertex > lastOp.bufferCount =>
               /\ ~ lastOp.subtracted
               /\ ~ lastOp.accepted
               /\ lastOp.submitted = 0 )
        /\ ( lastOp.accepted =>
               /\ lastOp.submitted = Min(lastOp.count, lastOp.bufferCount - lastOp.firstVertex)
               /\ lastOp.first = lastOp.firstVertex
               /\ lastOp.firstVertex + lastOp.submitted <= lastOp.bufferCount )

\* A buffer draw that asked for more vertices than the buffer holds after
\* firstVertex and submitted the remaining ones
C12_Witness ==
    /\ lastOp.kind = "drawVertexBuffer"
    /\ lastOp.accepted
    /\ lastOp.firstVertex > 0
    /\ lastOp.count > lastOp.bufferCount - lastOp.firstVertex
    /\ lastOp.submitted = lastOp.bufferCount - lastOp.firstVertex
    /\ lastOp.submitted > 0

\* C13: clear is never skipped: after it the tracker maps the context to
\* the target (which it activated if it was not active), no texture is
\* bound on unit 0 and the cached texture id is 0, and the clear was issued
\* for the colour buffer only.
C13_ClearNeverSkipped ==
    lastOp.kind = "clear" =>
        /\ lastOp.accepted
        /\ lastOp.cleared
        /\ lastOp.clearMask = { "GL_COLOR_BUFFER_BIT" }
        /\ isActive(contextRenderTargetMap, lastOp.target, lastOp.ctx)
        /\ lastOp.textureCalls = 1
        /\ gl[lastOp.ctx].texture = 0
        /\ m_cache[lastOp.target].lastTextureId = 0

\* A clear by a target that was not tracked in its context and had a
\* texture cached from its last draw
C13_Witness ==
    /\ lastOp.kind = "clear"
    /\ lastOp.cleared
    /\ lastOp.trackerAtEntry = 0
    /\ lastOp.lastTextureAtEntry = PlainTexture.cacheId
    /\ contextRenderTargetMap[lastOp.ctx] = lastOp.target
    /\ m_cache[lastOp.target].lastTextureId = 0

\* The graphics-API calls a RenderTarget call has made
ApiCalls(op) ==
    op.blendCalls + op.textureCalls + op.viewCalls + op.transformCalls
        + op.shaderBinds + op.attribSetups + op.submitted

\* C14: setView(view) is a pure state update: the view of the target is the
\* given one afterwards (getView returns it), viewChanged is true, no other
\* field of the cache, no other target, no tracker entry and no GL state
\* changes, and no graphics-API call is made.
C14_SetViewIsPure ==
    [][ lastOp'.kind = "setView" =>
          /\ m_view' = [ m_view EXCEPT ![lastOp'.target] = lastOp'.view ]
          /\ m_cache' = [ m_cache EXCEPT ![lastOp'.target].viewChanged = TRUE ]
          /\ contextRenderTargetMap' = contextRenderTargetMap
          /\ gl' = gl
          /\ ApiCalls(lastOp') = 0
          /\ ~ lastOp'.cleared ]_vars

\* setView with another view on a target whose view was applied by a draw
C14_Witness ==
    /\ lastOp.kind = "setView"
    /\ lastOp.view = MaxView
    /\ m_view[lastOp.target] = MaxView
    /\ m_cache[lastOp.target].viewChanged
    /\ m_cache[lastOp.target].enable
    /\ lastOp.trackerAtEntry = lastOp.target

\* C15: viewChanged is set by every setView and cleared when the view is
\* applied: after a draw that applied the view, viewChanged is false, and a
\* draw that directly follows a draw of the same target (no setView in
\* between) and starts with the cache valid does not apply the view again,
\* on both backends.
C15_ViewAppliedWhenChanged ==
    /\ [] ( ( IsDraw(lastOp) /\ lastOp.viewCalls >= 1 )
               => ~ m_cache[lastOp.target].viewChanged )
    /\ [][ lastOp'.kind = "setView" => m_cache'[lastOp'.target].viewChanged ]_vars
    /\ [][ ( /\ IsDraw(lastOp) /\ IsDraw(lastOp')
             /\ lastOp'.target = lastOp.target
             /\ lastOp'.enableAtSetup )
           => lastOp'.viewCalls = 0 ]_vars

\* C16: resetGLStates, and pushGLStates, which always calls it, leave the
\* cache of the target in the baseline: glStatesSet and enable true, the
\* cached blend mode BlendAlpha (src-alpha / one-minus-src-alpha, add), the
\* cached texture id 0, no texture and no shader bound, useVertexCache
\* false, texCoordsArrayEnabled true and viewChanged true; enable is set
\* when all the rest of the baseline is in place.
C16_ResetLeavesBaseline ==
    lastOp.kind \in { "resetGLStates", "pushGLStates" } =>
        /\ lastOp.accepted
        /\ lastOp.resets = 1
        /\ isActive(contextRenderTargetMap, lastOp.target, lastOp.ctx)
        /\ m_cache[lastOp.target].glStatesSet
        /\ m_cache[lastOp.target].enable
        /\ m_cache[lastOp.target].lastBlendMode = BlendAlpha
        /\ BlendAlpha.colorSrcFactor = "SrcAlpha"
        /\ BlendAlpha.colorDstFactor = "OneMinusSrcAlpha"
        /\ BlendAlpha.colorEquation = "Add"
        /\ gl[lastOp.ctx].blendFunc[1] = "GL_SRC_ALPHA"
        /\ gl[lastOp.ctx].blendFunc[2] = "GL_ONE_MINUS_SRC_ALPHA"
        /\ gl[lastOp.ctx].blendEquation[1] = "GL_FUNC_ADD"
        /\ m_cache[lastOp.target].lastTextureId = 0
        /\ gl[lastOp.ctx].texture = 0
        /\ gl[lastOp.ctx].program = 0
        /\ ~ m_cache[lastOp.target].useVertexCache
        /\ m_cache[lastOp.target].texCoordsArrayEnabled
        /\ m_cache[lastOp.target].viewChanged
        /\ lastOp.baselineAtEnable

\* pushGLStates by a target whose last draw used a texture
C16_Witness ==
    /\ lastOp.kind = "pushGLStates"
    /\ lastOp.resets = 1
    /\ lastOp.enableAtEntry
    /\ lastOp.lastTextureAtEntry = PlainTexture.cacheId
    /\ m_cache[lastOp.target].lastTextureId = 0
    /\ lastOp.baselineAtEnable

\* The warnings of applyBlendMode written so far
SelectionWarnings == SelectSeq(err, LAMBDA m : m = "Selecting a blend equation not possible")

\* C17: when neither the subtract nor the min/max extension is available
\* and a draw asks for a non-additive blend equation, the context keeps
\* the additive equation, the draw submits its primitives, and the warning
\* has been written once, however many draws of whichever targets asked.
C17_BlendEquationFallback ==
    /\ Len(SelectionWarnings) <= 1
    /\ ( /\ lastOp.kind = "draw"
         /\ ~ platform.blend_subtract /\ ~ platform.blend_minmax
         /\ \/ lastOp.states.blendMode.colorEquation # "Add"
            \/ lastOp.states.blendMode.alphaEquation # "Add" )
        => /\ lastOp.accepted
           /\ lastOp.submitted = lastOp.count
           /\ gl[lastOp.ctx].blendEquation = << "GL_FUNC_ADD", "GL_FUNC_ADD" >>
           /\ m_cache[lastOp.target].lastBlendMode = lastOp.states.blendMode
           /\ Len(SelectionWarnings) = 1
           /\ warned.applyBlendMode

\* The second target draws with a subtracting blend mode after the first
\* one did: the mode is applied again and nothing more is logged
C17_Witness ==
    /\ ~ platform.blend_subtract /\ ~ platform.blend_minmax
    /\ lastOp.kind = "draw"
    /\ lastOp.target = 2
    /\ lastOp.states.blendMode.colorEquation = "Subtract"
    /\ lastOp.blendCalls = 1
    /\ lastOp.submitted = 1
    /\ m_cache[1].lastBlendMode.alphaEquation = "Max"
    /\ Len(err) = 1

\* compile failed in a stage or in the link / for want of a capability
StageFailures == { "vertex", "geometry", "fragment", "link" }
CapabilityFailures == { "unavailable", "geometry unavailable" }

\* How often name occurs in the sequence names
Occurrences(names, name) == Cardinality({ i \in 1 .. Len(names) : names[i] = name })

\* C18: a compile whose stage compilation or link fails returns false and
\* leaves the program handle 0, the uniform cache and the texture table
\* empty and the current-texture slot -1; the program and every stage
\* object it created, and the program it replaced, have been deleted with
\* exactly one delete call each, and no delete call named anything else.
C18_FailedCompileCleansUp ==
    ( lastCall.kind = "compile" /\ lastCall.failure \in StageFailures ) =>
        /\ ~ lastCall.ret
        /\ getNativeHandle(m_shader[lastCall.shader]) = 0
        /\ m_shader[lastCall.shader].m_uniforms = << >>
        /\ m_shader[lastCall.shader].m_textures = << >>
        /\ m_shader[lastCall.shader].m_currentTexture = -1
        /\ Len(lastCall.created) >= 1
        /\ \A i \in 1 .. Len(lastCall.created) :
              /\ lastCall.created[i] \notin glObjects
              /\ Occurrences(lastCall.created, lastCall.created[i]) = 1
              /\ Occurrences(lastCall.deleted, lastCall.created[i]) = 1
        /\ \A i \in 1 .. Len(lastCall.deleted) :
              \/ Occurrences(lastCall.created, lastCall.deleted[i]) = 1
              \/ /\ lastCall.deleted[i] = lastCall.handleAtEntry
                 /\ Occurrences(lastCall.deleted, lastCall.deleted[i]) = 1
        /\ lastCall.handleAtEntry # 0 =>
              /\ lastCall.handleAtEntry \notin glObjects
              /\ Occurrences(lastCall.deleted, lastCall.handleAtEntry) = 1
        /\ ~ lastCall.invalidDelete

\* The fragment stage of a recompile fails: a linked program with a texture
\* in its table is replaced, a program and two stage objects are created
C18_Witness ==
    /\ lastCall.kind = "compile"
    /\ lastCall.failure = "fragment"
    /\ lastCall.handleAtEntry # 0
    /\ lastCall.texturesAtEntry = 1
    /\ Len(lastCall.created) = 3
    /\ Len(lastCall.deleted) = 4
    /\ m_shader[lastCall.shader].m_textures = << >>

\* C19: a compile that fails because shaders are unavailable, or because
\* geometry source is given while geometry shaders are unavailable (as they
\* always are on the ES backend), returns false and leaves the program
\* handle, the uniform cache, the texture table and the current-texture
\* slot of the shader, and the OpenGL objects, as they were; it fails that
\* way whenever the capability is missing.
C19_CapabilityAbsenceChangesNothing ==
    [][ lastCall'.kind = "compile" =>
          /\ lastCall'.failure \in CapabilityFailures <=>
                \/ ~ isAvailable(platform)
                \/ lastCall'.geometry /\ ~ isGeometryAvailable(platform)
          /\ ( platform.es /\ lastCall'.geometry ) =>
                lastCall'.failure = "geometry unavailable"
          /\ lastCall'.failure \in CapabilityFailures =>
                /\ ~ lastCall'.ret
                /\ m_shader' = m_shader
                /\ glObjects' = glObjects
                /\ gl' = gl
                /\ lastCall'.created = << >>
                /\ lastCall'.deleted = << >> ]_vars

\* On the ES backend a shader that is linked, holds a texture and a
\* current-texture slot is compiled again with geometry source
C19_Witness ==
    /\ platform.es
    /\ lastCall.kind = "compile"
    /\ lastCall.geometry
    /\ lastCall.failure = "geometry unavailable"
    /\ m_shader[lastCall.shader].m_shaderProgram # 0
    /\ m_shader[lastCall.shader].m_shaderProgram = lastCall.handleAtEntry
    /\ m_shader[lastCall.shader].m_textures # << >>
    /\ m_shader[lastCall.shader].m_currentTexture # -1

\* bind(shader) and bind(NULL) leave the context of the last call alike
BindsLikeNull(sh) ==
    bind(ShaderWorld(sh, "bind"), FALSE, m_shader[sh]).gl =
    bind(ShaderWorld(0, "bind"), TRUE, ShaderInit).gl

\* C20, as stated: after any compile that returns false the native handle
\* of the shader is 0 and bind(shader) does what bind(NULL) does.
C20_FailedCompileUnusable ==
    ( lastCall.kind = "compile" /\ ~ lastCall.ret ) =>
        /\ getNativeHandle(m_shader[lastCall.shader]) = 0
        /\ BindsLikeNull(lastCall.shader)

\* C20, amended: after a compile that returns false because a stage or the
\* link failed the native handle is 0; after one that returns false for
\* want of a capability the handle is the one the shader had before; and
\* bind(shader) does what bind(NULL) does exactly when the handle is 0.
C20_FailedCompileUnusableUnlessCapability ==
    ( lastCall.kind = "compile" /\ ~ lastCall.ret ) =>
        /\ lastCall.failure \in StageFailures \cup CapabilityFailures
        /\ lastCall.failure \in StageFailures =>
              getNativeHandle(m_shader[lastCall.shader]) = 0
        /\ lastCall.failure \in CapabilityFailures =>
              getNativeHandle(m_shader[lastCall.shader]) = lastCall.handleAtEntry
        /\ BindsLikeNull(lastCall.shader) <=>
              getNativeHandle(m_shader[lastCall.shader]) = 0

\* The link of a recompile fails while the program it replaces is the one
\* in use in the context: binding the shader now unbinds that program
C20_Witness ==
    /\ lastCall.kind = "compile"
    /\ lastCall.failure = "link"
    /\ lastCall.handleAtEntry # 0
    /\ gl[1].program = lastCall.handleAtEntry
    /\ getNativeHandle(m_shader[lastCall.shader]) = 0
    /\ BindsLikeNull(lastCall.shader)
    /\ bind(ShaderWorld(lastCall.shader, "bind"), FALSE, m_shader[lastCall.shader]).gl.program = 0

\* C21: a compile that returns true leaves a nonzero program handle, the
\* name of the program it created and linked, which is live; the program
\* held before has been deleted with exactly one call; the uniform cache
\* and the texture table are empty and the current-texture slot is -1;
\* every stage object it created has been deleted once; and compile
\* returns true exactly when no capability, stage or link failure occurred.
C21_SuccessfulCompile ==
    lastCall.kind = "compile" =>
        /\ lastCall.ret <=> lastCall.failure = "none"
        /\ lastCall.ret =>
              /\ getNativeHandle(m_shader[lastCall.shader]) # 0
              /\ getNativeHandle(m_shader[lastCall.shader]) = lastCall.program
              /\ lastCall.created[1] = lastCall.program
              /\ lastCall.program \in glObjects
              /\ lastCall.program # lastCall.handleAtEntry
              /\ Occurrences(lastCall.deleted, lastCall.program) = 0
              /\ lastCall.handleAtEntry # 0 =>
                    /\ Occurrences(lastCall.deleted, lastCall.handleAtEntry) = 1
                    /\ lastCall.handleAtEntry \notin glObjects
              /\ \A i \in 2 .. Len(lastCall.created) :
                    /\ Occurrences(lastCall.deleted, lastCall.created[i]) = 1
                    /\ lastCall.created[i] \notin glObjects
              /\ ~ lastCall.invalidDelete
              /\ m_shader[lastCall.shader].m_uniforms = << >>
              /\ m_shader[lastCall.shader].m_textures = << >>
              /\ m_shader[lastCall.shader].m_currentTexture = -1

\* A linked shader holding a texture is compiled again from three sources
\* and links
C21_Witness ==
    /\ lastCall.kind = "compile"
    /\ lastCall.ret
    /\ lastCall.geometry
    /\ lastCall.handleAtEntry # 0
    /\ lastCall.texturesAtEntry = 1
    /\ Len(lastCall.created) = 4
    /\ Len(lastCall.deleted) = 4
    /\ m_shader[lastCall.shader].m_shaderProgram \in glObjects

\* C22: when a value-setting setUniform call returns, the program in use
\* in the context of the calling thread is the one that was in use when
\* the call started, whether or not the uniform was found and whether or
\* not the shader has a program; the value was set in the program of the
\* shader; and no step of the call touches the context of another thread.
C22_ScopedBinding ==
    [][ \A th \in Threads :
          /\ ( pc[th] = "setUniform_end" /\ pc'[th] = "idle" ) =>
                gl'[getActiveContextId(th)].program = binder[th].programAtEntry
          /\ ( pc[th] = "setUniform_set" /\ pc'[th] = "setUniform_end" ) =>
                /\ binder[th].location # -1 =>
                      /\ binder'[th].uniformSetIn = binder[th].currentProgram
                      /\ binder[th].currentProgram # 0
                /\ binder[th].currentProgram = 0 =>
                      gl[getActiveContextId(th)].program = binder[th].programAtEntry
          /\ ( pc[th] # pc'[th] /\ ( pc[th] \in { "setUniform_set", "setUniform_end" }
                                     \/ pc'[th] = "setUniform_set" ) ) =>
                \A c \in Contexts \ { getActiveContextId(th) } : gl'[c] = gl[c] ]_vars

\* Thread 1 has returned from a setUniform that switched programs and
\* switched back, with another program in use in its context, while
\* thread 2 is inside a setUniform on the other shader
C22_Witness ==
    /\ pc[1] = "idle"
    /\ binder[1].returned
    /\ binder[1].restored
    /\ gl[getActiveContextId(1)].program # 0
    /\ pc[2] = "setUniform_end"
    /\ binder[2].currentProgram # 0
    /\ binder[2].savedProgram # binder[2].currentProgram
    /\ gl[getActiveContextId(2)].program = binder[2].currentProgram

\* C23: since the last compile call on a shader, every uniform name has
\* been looked up in OpenGL at most once, and the location found, -1
\* included, is the cached one; an unknown name has been warned about once
\* when it has been looked up and never otherwise; and no call other than
\* a compile that passes the capability tests removes or changes an entry
\* of the cache.
C23_UniformCache ==
    /\ [] \A sh \in ShaderIds, name \in UniformNames :
            /\ uniformLog[sh].lookups[name] <= 1
            /\ uniformLog[sh].warnings[name] <= 1
            /\ uniformLog[sh].lookups[name] = 1 =>
                  /\ name \in DOMAIN m_shader[sh].m_uniforms
                  /\ m_shader[sh].m_uniforms[name] = glGetUniformLocation(name)
            /\ uniformLog[sh].warnings[name] = 1 <=>
                  /\ uniformLog[sh].lookups[name] = 1
                  /\ glGetUniformLocation(name) = -1
    /\ [][ \A sh \in ShaderIds :
             \/ \A name \in DOMAIN m_shader[sh].m_uniforms :
                   /\ name \in DOMAIN m_shader'[sh].m_uniforms
                   /\ m_shader'[sh].m_uniforms[name] = m_shader[sh].m_uniforms[name]
                   /\ uniformLog'[sh].lookups[name] <= uniformLog[sh].lookups[name]
             \/ /\ lastCall'.kind = "compile"
                /\ lastCall'.shader = sh
                /\ lastCall'.failure \notin CapabilityFailures ]_vars

\* A shader whose cache holds a known and an unknown name, each looked up
\* once, after setting the unknown name as the current texture: the slot
\* holds -1 from the cache
C23_Witness ==
    /\ lastCall.kind = "setUniformCurrentTexture"
    /\ lastCall.name = "missing"
    /\ lastCall.shader = 1
    /\ m_shader[1].m_currentTexture = -1
    /\ DOMAIN m_shader[1].m_uniforms = FewNames
    /\ \A name \in FewNames : uniformLog[1].lookups[name] = 1
    /\ uniformLog[1].warnings["missing"] = 1
    /\ lastCall.handleAtEntry # 0
    /\ Cardinality(DOMAIN m_shader[1].m_textures) = 1

\* C24: the texture table of a shader never holds more than
\* getMaxTextureUnits - 1 entries; setUniform(name, texture) records a new
\* location while fewer than that are recorded and otherwise leaves the
\* table as it is; it replaces the texture of a recorded location at any
\* size without changing the size; and it records nothing for an unknown
\* name or a shader without program.
C24_TextureUnitCapacity ==
    /\ [] \A sh \in ShaderIds :
            Cardinality(DOMAIN m_shader[sh].m_textures) <= getMaxTextureUnits - 1
    /\ [][ lastCall'.kind = "setUniformTexture" =>
             IF \/ m_shader[lastCall'.shader].m_shaderProgram = 0
                \/ glGetUniformLocation(lastCall'.name) = -1
             THEN m_shader'[lastCall'.shader].m_textures =
                      m_shader[lastCall'.shader].m_textures
             ELSE IF glGetUniformLocation(lastCall'.name) \in
                         DOMAIN m_shader[lastCall'.shader].m_textures
                  THEN m_shader'[lastCall'.shader].m_textures =
                           [ m_shader[lastCall'.shader].m_textures EXCEPT
                               ![glGetUniformLocation(lastCall'.name)] = lastCall'.texture ]
                  ELSE IF Cardinality(DOMAIN m_shader[lastCall'.shader].m_textures)
                              < getMaxTextureUnits - 1
                       THEN m_shader'[lastCall'.shader].m_textures =
                                MapPut(m_shader[lastCall'.shader].m_textures,
                                       glGetUniformLocation(lastCall'.name),
                                       lastCall'.texture)
                       ELSE m_shader'[lastCall'.shader].m_textures =
                                m_shader[lastCall'.shader].m_textures ]_vars

\* The table is full and the last setUniform named a location that is not
\* in it
C24_Witness ==
    /\ lastCall.kind = "setUniformTexture"
    /\ lastCall.handleAtEntry # 0
    /\ lastCall.texturesAtEntry = getMaxTextureUnits - 1
    /\ Cardinality(DOMAIN m_shader[lastCall.shader].m_textures) = getMaxTextureUnits - 1
    /\ glGetUniformLocation(lastCall.name) # -1
    /\ glGetUniformLocation(lastCall.name) \notin DOMAIN m_shader[lastCall.shader].m_textures

\* The texture unit of a recorded location: one more than the number of
\* smaller recorded locations
UnitOf(textures, location) ==
    Cardinality({ l \in DOMAIN textures : l < location }) + 1

\* C25: after bind(shader) with a linked program the program is in use;
\* every entry of the texture table has had its uniform set to its unit and
\* its texture bound to that unit, the units being 1..k by increasing
\* location, a function of the set of recorded locations alone, and below
\* getMaxTextureUnits; the last uniform set is the current-texture slot,
\* to unit 0, when there is one; and unit 0 is the active one. After
\* bind(NULL) or bind of a shader whose handle is 0 no program is in use.
C25_BindAssignsTextureUnits ==
    lastCall.kind = "bind" =>
        IF lastCall.shader # 0 /\ lastCall.handleAtEntry # 0
        THEN /\ gl[1].program = m_shader[lastCall.shader].m_shaderProgram
             /\ gl[1].activeTexture = 0
             /\ { UnitOf(m_shader[lastCall.shader].m_textures, l) :
                     l \in DOMAIN m_shader[lastCall.shader].m_textures }
                  = 1 .. Cardinality(DOMAIN m_shader[lastCall.shader].m_textures)
             /\ \A l \in DOMAIN m_shader[lastCall.shader].m_textures :
                   /\ UnitOf(m_shader[lastCall.shader].m_textures, l) < getMaxTextureUnits
                   /\ lastCall.uniform1i[UnitOf(m_shader[lastCall.shader].m_textures, l)]
                        = << l, UnitOf(m_shader[lastCall.shader].m_textures, l) >>
                   /\ gl[1].units[UnitOf(m_shader[lastCall.shader].m_textures, l)]
                        = m_shader[lastCall.shader].m_textures[l]
             /\ IF m_shader[lastCall.shader].m_currentTexture # -1
                THEN /\ Len(lastCall.uniform1i)
                          = Cardinality(DOMAIN m_shader[lastCall.shader].m_textures) + 1
                     /\ lastCall.uniform1i[Len(lastCall.uniform1i)]
                          = << m_shader[lastCall.shader].m_currentTexture, 0 >>
                ELSE Len(lastCall.uniform1i)
                          = Cardinality(DOMAIN m_shader[lastCall.shader].m_textures)
        ELSE /\ gl[1].program = 0
             /\ lastCall.uniform1i = << >>

\* bind of a shader with a current-texture slot whose table holds the
\* locations 0 and 2 with different textures: they go to the units 1 and 2
C25_Witness ==
    /\ lastCall.kind = "bind"
    /\ lastCall.shader = 1
    /\ gl[1].program # 0
    /\ DOMAIN m_shader[1].m_textures = { 0, 2 }
    /\ m_shader[1].m_textures[0] # m_shader[1].m_textures[2]
    /\ m_shader[1].m_currentTexture = 0
    /\ gl[1].units = << m_shader[1].m_textures[0], m_shader[1].m_textures[2] >>
    /\ Len(lastCall.uniform1i) = 3

\* What a capability probe finds on the platform of the process
ProbeValue(fn) ==
    IF fn = "isAvailable" THEN isAvailable(platform)
    ELSE IF fn = "isGeometryAvailable" THEN isGeometryAvailable(platform)
    ELSE FALSE

ProbeUnits(fn) == IF fn = "getMaxTextureUnits" THEN getMaxTextureUnits ELSE 0

\* C26: with threads calling isAvailable, isGeometryAvailable and
\* getMaxTextureUnits concurrently, each probe runs at most once, it has
\* run and stored its result when a call returns, and every call returns
\* that stored value, which is what the probe finds on the platform.
C26_MemoizedProbes ==
    /\ \A fn \in Memoized : statics[fn].runs <= 1
    /\ \A th \in Threads :
          returned[th].fn \in Memoized =>
              /\ statics[returned[th].fn].runs = 1
              /\ returned[th].value = statics[returned[th].fn].available
              /\ returned[th].maxUnits = statics[returned[th].fn].maxUnits
              /\ returned[th].value = ProbeValue(returned[th].fn)
              /\ returned[th].maxUnits = ProbeUnits(returned[th].fn)

\* Both threads have returned from isGeometryAvailable with the value
\* true, one probe of each kind having run, while the maximum of texture
\* units has been probed as well
C26_Witness ==
    /\ \A th \in Threads :
          returned[th].fn = "isGeometryAvailable" /\ returned[th].value
    /\ \A fn \in Memoized : statics[fn].runs = 1

\* C29: every call of isAvailable, isGeometryAvailable, compile, bind or
\* setUniform that a thread has started returns.
C29_EveryCallReturns ==
    \A th \in Threads : (stack[th] # << >>) ~> (stack[th] = << >>)

\* C27: each default shader is compiled at most once, whatever the
\* interleaving of the draws of threads that each have their own context
\* and their own target.
C27_DefaultCompiledOnce ==
    \A fn \in DefaultShaders : defaults[fn].compiles <= 1

\* C28: no context is mapped to the id of a target whose destructor has
\* run.
C28_DestroyedTargetUntracked ==
    \A ctx \in DOMAIN contextRenderTargetMap :
        contextRenderTargetMap[ctx] \notin destroyed

\* The events of the queue that update has not reached
Pending ==
    IF joystick.update = "loop"
    THEN SubSeq(joystick.events, joystick.it, Len(joystick.events))
    ELSE joystick.events

\* The ranks, among the first n events pushed, of those of device d
\* (of the given type)
RanksOf(d, n) == { k \in 1 .. n : joystick.history[k].deviceId = d }

RanksOfType(d, n, type) == { k \in RanksOf(d, n) : joystick.history[k].type = type }

Latest(ranks) == CHOOSE k \in ranks : \A l \in ranks : l <= k

\* The record of device d shows the first n events pushed, each applied
\* once and in their order: connected as the latest event of the device
\* says, buttons as its latest event about each button says, axes as its
\* latest motion says
Shows(state, d, n) ==
    /\ state.connected =
          IF joystick.history[Latest(RanksOf(d, n))].type = "Connection"
          THEN joystick.history[Latest(RanksOf(d, n))].pressed
          ELSE TRUE
    /\ \A b \in 0 .. ButtonCount - 1 :
          state.buttons[b] =
             IF { k \in RanksOfType(d, n, "Key") : joystick.history[k].index = b } = {}
             THEN FALSE
             ELSE joystick.history[Latest({ k \in RanksOfType(d, n, "Key") :
                                              joystick.history[k].index = b })].pressed
    /\ \A a \in DOMAIN AxisField :
          state.axes[a] =
             IF RanksOfType(d, n, "Motion") = {}
             THEN 0
             ELSE joystick.history[Latest(RanksOfType(d, n, "Motion"))].motion[AxisField[a]] * 100

\* C30: with pushEvent called by one thread while another calls update,
\* the events are applied in the order they were pushed, each once, and
\* every event pushed is either applied or still in the queue ahead of
\* update; the record of each device shows exactly the events applied;
\* and when update leaves its critical section the queue is empty and
\* every event pushed so far has been applied.
C30_JoystickQueue ==
    /\ [] /\ joystick.applied = [ k \in 1 .. Len(joystick.applied) |-> k ]
          /\ Len(joystick.applied) + Len(Pending) = Len(joystick.history)
          /\ \A k \in 1 .. Len(Pending) :
                Pending[k] = joystick.history[Len(joystick.applied) + k]
          /\ \A d \in JoystickDevices :
                IF RanksOf(d, Len(joystick.applied)) = {}
                THEN getState(joystick, d) = 0
                ELSE /\ getState(joystick, d) # 0
                     /\ joystick.joystickList[getState(joystick, d)].deviceId = d
                     /\ Shows(joystick.joystickList[getState(joystick, d)].state,
                              d, Len(joystick.applied))
    /\ [][ (joystick.update = "loop" /\ joystick'.update # "loop") =>
              /\ joystick'.events = << >>
              /\ Len(joystick'.applied) = Len(joystick'.history) ]_vars

\* A second update holds the lock and is about to apply the third event,
\* pushed after the first update had applied two events of two devices
C30_Witness ==
    /\ joystick.update = "loop"
    /\ joystick.it = 1
    /\ Len(joystick.applied) = 2
    /\ Len(joystick.joystickList) = 2
    /\ Len(joystick.events) = 1
    /\ joystick.events[1].n = 3

\* C31: getUniqueId returns 1 on its first call and on every later call
\* one more than on the call before, whatever thread makes the calls: the
\* value returned is that of the static id, which starts at 1 and grows by
\* one with every return and with nothing else; no thread is ever given 0
\* and no two threads hold the same id.
C31_UniqueIds ==
    /\ [] /\ nextId >= 1
          /\ (nextId = 1 => \A th \in Threads : thrId[th] = 0)
          /\ \A th \in Threads :
                pc[th] = "idle" /\ thrId[th] # 0 => thrId[th] \in 1 .. nextId - 1
          /\ \A a, b \in Threads :
                a # b /\ thrId[a] # 0 => thrId[a] # thrId[b]
    /\ [][ (nextId' # nextId \/ thrId' # thrId) =>
              /\ nextId' = nextId + 1
              /\ \E th \in Threads :
                    /\ pc[th] = "getUniqueId_locked"
                    /\ thrId' = [ thrId EXCEPT ![th] = nextId ]
                    /\ thrId'[th] # 0 ]_vars

\* One thread was given the id 1 by the first call and the other thread
\* the id 4 after it had been given 2 or 3 itself
C31_Witness ==
    /\ thrId[1] = 1
    /\ thrId[2] = 4
    /\ nextId = 5

\* C32: a call of isActive(id) by a thread whose context is C, made while
\* no other thread writes the tracker, returns true exactly when the tracker
\* has an entry for C that equals id; no call of isActive changes the
\* tracker or a cache.
C32_IsActiveAnswer ==
    [][ \A th \in Threads :
           (pc[th] = "isActive_find" /\ pc'[th] = "idle") =>
               /\ (~ thrArg[th].raced) =>
                     thrArg'[th].result =
                       ( /\ getActiveContextId(th) \in DOMAIN contextRenderTargetMap
                         /\ contextRenderTargetMap[getActiveContextId(th)]
                              = thrArg[th].target )
               /\ contextRenderTargetMap' = contextRenderTargetMap
               /\ m_cache' = m_cache ]_vars

\* Thread 1 has asked for target 1 and got true, thread 2 for target 1 too
\* and got false: the entry of thread 1's context names target 1, the entry
\* of thread 2's context names target 2
C32_Witness ==
    /\ pc = [ th \in Threads |-> "idle" ]
    /\ contextRenderTargetMap = << 1, 2 >>
    /\ thrArg[1] = [ ArgInit EXCEPT !.target = 1, !.result = TRUE ]
    /\ thrArg[2] = [ ArgInit EXCEPT !.target = 1, !.result = FALSE ]

\* C33: every accepted draw whose setup starts with the cache invalid
\* (m_cache.enable false) calls resetGLStates() once, before it applies
\* the states of the draw.
C33_InvalidCacheResets ==
    ( /\ lastOp.kind \in { "draw", "drawVertexBuffer" }
      /\ lastOp.accepted
      /\ ~ lastOp.enableAtSetup )
    => lastOp.resets = 1

\* C34: after every completed draw, of either overload and on either
\* backend, no program is bound in the context and the cache is enabled;
\* on the ES backend exactly one program was bound for the draw, the
\* caller's shader if given, else the default textured program if a texture
\* is given, else the default untextured program; on the desktop a program
\* was bound exactly when the caller gave a shader.
C34_ShaderUnboundAfterDraw ==
    ( /\ lastOp.kind \in { "draw", "drawVertexBuffer" }
      /\ lastOp.accepted )
    => /\ gl[lastOp.ctx].program = 0
       /\ m_cache[lastOp.target].enable
       /\ platform.es =>
            /\ lastOp.shaderBinds = 1
            /\ m_cache[lastOp.target].programChanged
                 = ( IF ~ lastOp.states.shader.null THEN lastOp.states.shader.program
                     ELSE IF ~ lastOp.states.texture.null THEN DefaultTexShader.program
                     ELSE DefaultShader.program )
       /\ (~ platform.es) =>
            lastOp.shaderBinds
              = ( IF (~ lastOp.states.shader.null) /\ platform.shaderAvailable
                  THEN 1 ELSE 0 )

\* An ES draw with a texture and no shader has completed: the default
\* textured program was bound for it and is unbound again
C34_Witness ==
    /\ lastOp.kind = "draw"
    /\ lastOp.accepted
    /\ platform.es
    /\ lastOp.states.shader.null
    /\ ~ lastOp.states.texture.null
    /\ lastOp.shaderBinds = 1
    /\ m_cache[lastOp.target].programChanged = DefaultTexShader.program
    /\ gl[lastOp.ctx].program = 0

\* The guarded operations
GuardedKinds == { "clear", "draw", "pushGLStates", "popGLStates" }

\* C35: a clear, a pushGLStates and a popGLStates always run their body,
\* and a draw runs it unless it is rejected for its arguments (no vertices,
\* or quads on the ES backend): none is skipped for an inactive target.
\* After each of them that ran, the tracker maps the context of the call
\* to the calling target. Every tracked context has one target, and a call
\* made in one context leaves the entries of the other contexts as they
\* were.
C35_EnsureActive ==
    /\ [] ( /\ lastOp.kind \in { "clear", "pushGLStates", "popGLStates" } => lastOp.accepted
            /\ lastOp.kind = "draw" =>
                 ( lastOp.accepted
                     <=> ( /\ lastOp.vertices
                           /\ lastOp.count > 0
                           /\ ~ (platform.es /\ lastOp.type = "Quads") ) )
            /\ (lastOp.kind \in GuardedKinds /\ lastOp.accepted) =>
                 /\ lastOp.ctx \in DOMAIN contextRenderTargetMap
                 /\ contextRenderTargetMap[lastOp.ctx] = lastOp.target
            /\ \A c \in DOMAIN contextRenderTargetMap :
                 /\ c \in Contexts
                 /\ contextRenderTargetMap[c] \in Targets )
    /\ [][ \A c \in Contexts \ { lastOp'.ctx } :
              MapFind(contextRenderTargetMap', c) = MapFind(contextRenderTargetMap, c) ]_vars

\* A popGLStates by a target that was not the tracked one of its context
\* ran and made it the tracked one, while the other context stays tracked
\* for the other target
C35_Witness ==
    /\ lastOp.kind = "popGLStates"
    /\ lastOp.accepted
    /\ lastOp.target = 1
    /\ lastOp.ctx = 2
    /\ lastOp.trackerAtEntry = 2
    /\ contextRenderTargetMap = << 2, 1 >>

\* The blend state applyBlendMode(mode) sets in a context
BlendStateOf(c, mode) ==
    setBlendMode([ p |-> platform, gl |-> gl[c], cache |-> CacheInit, op |-> OpInit ], mode).gl

\* C36: whenever the cache of a target is enabled and the tracker maps a
\* context to that target, the context's blend state is the one of the
\* cached blend mode and the texture bound on unit 0 is the cached one;
\* this holds after popGLStates too.
C36_CacheCoherence ==
    \A t \in Targets, c \in Contexts :
        ( /\ m_cache[t].enable
          /\ c \in DOMAIN contextRenderTargetMap
          /\ contextRenderTargetMap[c] = t )
        => /\ gl[c].texture = m_cache[t].lastTextureId
           /\ gl[c].blendFunc = BlendStateOf(c, m_cache[t].lastBlendMode).blendFunc
           /\ gl[c].blendEquation = BlendStateOf(c, m_cache[t].lastBlendMode).blendEquation

\* The devices that have an index
KnownDevices == DOMAIN joystick.joystickMapIndex

\* The rank of the first event of device d passed to pushEvent
FirstRank(d) ==
    CHOOSE k \in RanksOf(d, Len(joystick.history)) :
        \A l \in RanksOf(d, Len(joystick.history)) : k <= l

\* C37: whatever pushEvent, isConnected, open and update calls were made,
\* every index of joystickMapIndex is below joystickList.size(), the record
\* at the index of a device holds the id of that device, two devices have
\* two indices, the indices are 0, 1, 2, ... in the order in which the
\* devices first appeared in an event, and a device keeps its index.
C37_JoystickIndexTable ==
    /\ [] /\ \A d \in KnownDevices :
                /\ joystick.joystickMapIndex[d] < Len(joystick.joystickList)
                /\ joystick.joystickList[joystick.joystickMapIndex[d] + 1].deviceId = d
                /\ RanksOf(d, Len(joystick.history)) # {}
          /\ \A d, e \in KnownDevices :
                d # e => joystick.joystickMapIndex[d] # joystick.joystickMapIndex[e]
          /\ { joystick.joystickMapIndex[d] : d \in KnownDevices }
                = 0 .. Cardinality(KnownDevices) - 1
          /\ Len(joystick.joystickList) = Cardinality(KnownDevices)
          /\ \A d, e \in KnownDevices :
                FirstRank(d) < FirstRank(e)
                    => joystick.joystickMapIndex[d] < joystick.joystickMapIndex[e]
    /\ [][ \A d \in KnownDevices :
              /\ d \in DOMAIN joystick'.joystickMapIndex
              /\ joystick'.joystickMapIndex[d] = joystick.joystickMapIndex[d] ]_vars

\* isConnected has given the indices 0 and 1 to two devices whose events
\* are still in the queue, after open(1) was called
C37_Witness ==
    /\ joystick.joystickMapIndex = (9 :> 0 @@ 7 :> 1)
    /\ Len(joystick.joystickList) = 2
    /\ joystick.applied = << >>
    /\ Len(joystick.events) = 2
    /\ joystick.m_index = 1
    /\ joystick.poll = "idle"

\* The devices of the events passed to pushEvent so far
PushedDevices ==
    { joystick.history[k].deviceId : k \in 1 .. Len(joystick.history) }

\* The joystick of an index, by the order in which the devices first
\* appeared in an event, is connected as far as the events passed to
\* pushEvent say: its latest event is not a disconnection
ConnectedAsPushed(index) ==
    \E d \in PushedDevices :
        /\ Cardinality({ e \in PushedDevices : FirstRank(e) < FirstRank(d) }) = index
        /\ ( joystick.history[Latest(RanksOf(d, Len(joystick.history)))].type = "Connection"
               => joystick.history[Latest(RanksOf(d, Len(joystick.history)))].pressed )

\* C38: isConnected(index) returns true exactly when the joystick of that
\* index is connected, that is when the latest event pushed for its device
\* is a key, a motion or a connection with pressed = true; isConnected
\* leaves the queue of events as it is; update() returns connected = false
\* when m_index is not the index of a known joystick.
C38_IsConnectedAnswer ==
    [][ /\ ( joystick.poll # "idle" /\ joystick'.poll = "idle" /\ ~ joystick.raced )
             => joystick'.result = ConnectedAsPushed(joystick.index)
        /\ joystick'.poll # joystick.poll => joystick'.events = joystick.events
        /\ ( /\ joystick.update = "current"
             /\ joystick'.update = "idle"
             /\ joystick.m_index >= Len(joystick.joystickList) )
             => ~ joystick'.m_state.connected ]_vars

\* C39: a thread that reads or writes joystickList or joystickMapIndex
\* holds eventMutex: the thread inside isConnected while it reads the
\* list, the thread inside update while it walks the events and while it
\* copies the record of m_index, the thread inside open while it writes the
\* record; so isConnected does not read the list, and open does not write
\* it, while another thread is inside a loop that may resize it.
C39_ListAccessesHoldMutex ==
    /\ joystick.poll \in { "read", "locked" } => joystick.eventMutex = 3
    /\ joystick.update \in { "loop", "current", "open" } => joystick.eventMutex = 1
    /\ ~ (joystick.poll = "read" /\ joystick.update = "loop")
    /\ ~ (joystick.update \in { "current", "open" } /\ joystick.poll = "locked")

====
